---- MODULE Spec2Model ----
(***************************************************************************)
(* Resource-Action-Operator: the automation engine.                        *)
(*                                                                         *)
(*   Spec      the dispatcher (K8sExecutor.Execute), the interval          *)
(*             scheduler (CronEngine) and the rule store, driven by one    *)
(*             watch stream and by the interval tasks it arms              *)
(*   SpecArm   concurrent callers of CronEngine.EnsureForMatch             *)
(*   SpecWatch Engine.EnsureWatching with two concurrent reconcilers       *)
(*   SpecHTTP  the retry loop of HTTPExecutor.Execute                      *)
(***************************************************************************)
EXTENDS Integers, Sequences, FiniteSets, TLC

VARIABLES
    ruleSpec,     \* rule id -> the rule's spec (read-only to the engine)
    store,        \* rule id -> [exists, version, status]: the rule store
    clock,        \* the wall clock read by metav1.Now(); it advances between notifications and ticks
    jobs,         \* CronEngine.jobs: cronKey -> cancellation handle
    tasks,        \* the runCron goroutines, indexed by handle
    procs,        \* per caller (stream or task): position and locals of onEvent / Execute
    sent,         \* HTTPExecutor.Execute invocations made by K8sExecutor.Execute
    completed,    \* <<rule, uid, event>> of Execute calls that persisted and returned
    budget,       \* how many more notifications and ticker firings the run explores
    disco,        \* the kinds the discovery client currently serves
    informers,    \* Engine.informers: the registered resources
    handlers,     \* resource -> event handlers added to the factory's informer for it
    started,      \* Engine.started
    cronStarted,  \* CronEngine.started
    startPending, \* `go factory.Start` goroutines launched and not yet run
    running,      \* the resources whose informer the factory has started
    recon,        \* per reconciler: position and locals of EnsureWatching
    succeeded,    \* resource -> EnsureWatching calls that returned nil for it
    raw,          \* resource -> notifications its informer has produced
    onEvents,     \* resource -> Engine.onEvent invocations made by its handlers
    wbudget,      \* how many more EnsureWatching calls and notifications the run explores
    ctx,          \* the manager's context, handed to EnsureWatching and CronEngine.Start
    http          \* one HTTPExecutor.Execute call: its action, position and locals

engineVars == <<ruleSpec, store, clock, jobs, tasks, procs, sent, completed, budget>>

watchVars == <<disco, informers, handlers, started, cronStarted, startPending, running,
               recon, succeeded, raw, onEvents, wbudget, ctx>>

nonEngineVars == <<watchVars, http>>

vars == <<engineVars, watchVars, http>>

-----------------------------------------------------------------------------
(* Bounds of the model *)

MaxDispatch == 2
MaxCronDispatch == 1
MaxArmCalls == 3
MaxTicks == 2
MaxWatchCalls == 3
MaxNotify == 2
MaxBackoffAttempts == 66
MaxMatchDispatch == 2
MaxConflictDispatch == 1
MaxHeaderDispatch == 2
MaxScheduleCalls == 2
MaxDeleteDispatch == 2
MaxFilterArmCalls == 2
MaxWriterDispatch == 2
MaxOrderDispatch == 2
MaxRuleVersion == 6
MaxConditionUpdates == 3
MaxConditionClock == 3

-----------------------------------------------------------------------------
(* Generic helpers *)

Nil == "<nil>"

Range(s) == { s[i] : i \in DOMAIN s }

\* Go map lookup: a missing key reads as the zero value ""
MapGet(m, k) == IF \E e \in m : e[1] = k THEN (CHOOSE e \in m : e[1] = k)[2] ELSE ""

Bump(f, k) == IF k \in DOMAIN f THEN [f EXCEPT ![k] = @ + 1] ELSE f @@ (k :> 1)

Count(f, k) == IF k \in DOMAIN f THEN f[k] ELSE 0

-----------------------------------------------------------------------------
(* int64 arithmetic: a value is the set of the positions of its one bits, in two's
   complement, so that a product wraps as the machine's does *)

Word == 0..63

SignBit == 63

\* the int64 of a small natural number
Bits(n) == { i \in 0..30 : (n \div 2^i) % 2 = 1 }

Zero == Bits(0)

AllOnes == Word

IsNeg(x) == SignBit \in x

MaxOf(S) == CHOOSE m \in S : \A e \in S : e <= m

\* x * 2^n in int64: the bits shifted out are lost
Shl(x, n) == { b + n : b \in x } \cap Word

\* x * 2^n in the integers, x >= 0
UShl(x, n) == { b + n : b \in x }

\* x \div 2^n, x >= 0
Shr(x, n) == { b - n : b \in { c \in x : c >= n } }

\* x < y for x, y >= 0 of any size
ULess(x, y) ==
    LET d == (x \ y) \cup (y \ x)
    IN  d # {} /\ MaxOf(d) \in y

\* x < y in int64
Less(x, y) == IF IsNeg(x) # IsNeg(y) THEN IsNeg(x) ELSE ULess(x, y)

RECURSIVE AddFrom(_, _, _, _)
AddFrom(x, y, i, carry) ==
    IF i \notin Word THEN {}
    ELSE LET a == i \in x
             b == i \in y
         IN  (IF (a # b) # carry THEN {i} ELSE {})
             \cup AddFrom(x, y, i + 1, (a /\ b) \/ (carry /\ (a \/ b)))

\* x + y in int64
Add(x, y) == AddFrom(x, y, 0, FALSE)

Negate(x) == Add(Word \ x, Bits(1))

\* x / 4 in int64: Go's division truncates toward zero
Quarter(x) == IF IsNeg(x) THEN Negate(Shr(Negate(x), 2)) ELSE Shr(x, 2)

-----------------------------------------------------------------------------
(* HTTPExecutor: effective policy and classification of one attempt *)

DefaultRetryOnStatus == {429, 500, 502, 503, 504}

DefaultPattern == "^2..$"

NoRetry ==
    [set |-> FALSE, maxAttempts |-> 0, retryOnNetworkError |-> Nil, retryOnStatus |-> <<>>,
     backoff |-> "", maxBackoff |-> ""]

\* durations in nanoseconds
Millis500 == Bits(500000000)
Seconds1 == Bits(1000000000)
Seconds10 == Shl(Bits(9765625), 10)
Nanos1 == Bits(1)

\* parseDurationDefault on the strings the model uses: "" and what does not parse give def
parseDurationDefault(s, def) ==
    CASE s = "500ms" -> Millis500
      [] s = "1s" -> Seconds1
      [] s = "10s" -> Seconds10
      [] s = "1ns" -> Nanos1
      [] OTHER -> def

EffBackoffBase(action) ==
    IF action.retry.set THEN parseDurationDefault(action.retry.backoff, Millis500)
    ELSE Millis500

EffMaxBackoff(action) ==
    IF action.retry.set THEN parseDurationDefault(action.retry.maxBackoff, Seconds10)
    ELSE Seconds10

\* rng.Int63n(n), n > 0: any value of [0, n); the model takes the ends and the middle
Int63n(n) == {Zero, Shr(n, 1), Add(n, AllOnes)}

\* backoffSleep: the sleeps it may return after `attempt`
backoffSleep(base, max, attempt) ==
    LET product   == Shl(base, attempt - 1)
        sleep     == IF Less(max, product) THEN max ELSE product
        jitterMax == Quarter(sleep)
    IN  IF Less(Zero, jitterMax)
        THEN { Add(sleep, j) : j \in Int63n(jitterMax) }
        ELSE {sleep}

EffMaxAttempts(action) ==
    IF action.retry.set /\ action.retry.maxAttempts > 0 THEN action.retry.maxAttempts ELSE 1

EffRetryOnNetwork(action) ==
    IF action.retry.set /\ action.retry.retryOnNetworkError # Nil
    THEN action.retry.retryOnNetworkError = "true"
    ELSE TRUE

EffRetryOnStatus(action) ==
    IF action.retry.set /\ Len(action.retry.retryOnStatus) > 0
    THEN Range(action.retry.retryOnStatus)
    ELSE DefaultRetryOnStatus

EffPattern(action) == IF action.expectedStatus = "" THEN DefaultPattern ELSE action.expectedStatus

\* regexp.Compile on the patterns the model uses
RegexCompiles(pattern) == pattern \notin {"(", "[a-"}

\* re.MatchString(strconv.Itoa(code)) for three-digit status codes
StatusMatches(pattern, code) ==
    LET d1 == code \div 100
        d2 == (code \div 10) % 10
        d3 == code % 10
    IN  CASE pattern = "^2..$" -> d1 = 2
          [] pattern = "^(4..|5..)$" -> d1 \in {4, 5}
          [] pattern = "^200$" -> code = 200
          [] pattern = "0" -> 0 \in {d2, d3}
          [] OTHER -> FALSE

StatusErrorMsg(code, body) ==
    "http call failed: status=" \o ToString(code) \o " body=" \o body

ExhaustedMsg(n) == "http call failed after " \o ToString(n) \o " attempts"

RetryableMessages ==
    {"read: connection reset by peer", "write: broken pipe", "unexpected EOF",
     "i/o timeout", "net/http: TLS handshake timeout"}

\* a network error: [netError, timeout, temporary, msg]
isRetryableNetErr(err) ==
    \/ err.netError /\ (err.timeout \/ err.temporary)
    \/ err.msg \in RetryableMessages

\* the pass that retries every network error while attempts remain
HTTPAttemptOutcomeAnyNetErr(action, attempt, resp) ==
    IF resp.kind = "neterr"
    THEN IF EffRetryOnNetwork(action) /\ attempt < EffMaxAttempts(action)
         THEN [retry |-> TRUE, err |-> Nil]
         ELSE [retry |-> FALSE, err |-> resp.err.msg]
    ELSE IF StatusMatches(EffPattern(action), resp.code)
         THEN [retry |-> FALSE, err |-> Nil]
         ELSE IF resp.code \in EffRetryOnStatus(action) /\ attempt < EffMaxAttempts(action)
              THEN [retry |-> TRUE, err |-> Nil]
              ELSE [retry |-> FALSE, err |-> StatusErrorMsg(resp.code, resp.body)]

\* the pass with the retry test ahead of the pattern test
HTTPAttemptOutcomeRetryFirst(action, attempt, resp) ==
    IF resp.kind = "neterr"
    THEN IF EffRetryOnNetwork(action) /\ attempt < EffMaxAttempts(action)
            /\ isRetryableNetErr(resp.err)
         THEN [retry |-> TRUE, err |-> Nil]
         ELSE [retry |-> FALSE, err |-> resp.err.msg]
    ELSE IF resp.code \in EffRetryOnStatus(action) /\ attempt < EffMaxAttempts(action)
         THEN [retry |-> TRUE, err |-> Nil]
         ELSE IF StatusMatches(EffPattern(action), resp.code)
              THEN [retry |-> FALSE, err |-> Nil]
              ELSE [retry |-> FALSE, err |-> StatusErrorMsg(resp.code, resp.body)]

\* the pass that retries every unexpected status while attempts remain
HTTPAttemptOutcomeAnyStatus(action, attempt, resp) ==
    IF resp.kind = "neterr"
    THEN IF EffRetryOnNetwork(action) /\ attempt < EffMaxAttempts(action)
            /\ isRetryableNetErr(resp.err)
         THEN [retry |-> TRUE, err |-> Nil]
         ELSE [retry |-> FALSE, err |-> resp.err.msg]
    ELSE IF StatusMatches(EffPattern(action), resp.code)
         THEN [retry |-> FALSE, err |-> Nil]
         ELSE IF attempt < EffMaxAttempts(action)
              THEN [retry |-> TRUE, err |-> Nil]
              ELSE [retry |-> FALSE, err |-> StatusErrorMsg(resp.code, resp.body)]

\* One pass of the loop body for `attempt`, given what httpClient.Do returned:
\* [retry |-> the loop continues, err |-> the error returned otherwise (Nil: success)]
HTTPAttemptOutcome(action, attempt, resp) ==
    IF resp.kind = "neterr"
    THEN IF EffRetryOnNetwork(action) /\ attempt < EffMaxAttempts(action)
            /\ isRetryableNetErr(resp.err)
         THEN [retry |-> TRUE, err |-> Nil]
         ELSE [retry |-> FALSE, err |-> resp.err.msg]
    ELSE IF StatusMatches(EffPattern(action), resp.code)
         THEN [retry |-> FALSE, err |-> Nil]
         ELSE IF resp.code \in EffRetryOnStatus(action) /\ attempt < EffMaxAttempts(action)
              THEN [retry |-> TRUE, err |-> Nil]
              ELSE [retry |-> FALSE, err |-> StatusErrorMsg(resp.code, resp.body)]

StatusResp(code, body) ==
    [kind |-> "status", code |-> code, body |-> body,
     err |-> [netError |-> FALSE, timeout |-> FALSE, temporary |-> FALSE, msg |-> ""]]

NetErrResp(e) == [kind |-> "neterr", code |-> 0, body |-> "", err |-> e]

-----------------------------------------------------------------------------
(* Universe: rules, watched objects, events *)

RuleIds == {"r1", "r2"}

\* client.List returns the items in a fixed order
RuleList == <<"r1", "r2">>

RuleNamespace(r) == IF r = "r1" THEN "ns1" ELSE "ns2"

EventCreate == "Create"
EventUpdate == "Update"
EventDelete == "Delete"

EventTypes == {EventCreate, EventDelete}

Objects ==
    { [uid |-> "U1", name |-> "web-1", namespace |-> "prod", labels |-> {<<"app", "x">>}],
      [uid |-> "U2", name |-> "db-1", namespace |-> "dev", labels |-> {}] }

(* Secrets of the rule's namespace *)

\* a SecretKeyRef and a TLSClientCertRef
SecretKeyRef(name, key) == [name |-> name, key |-> key]

TLSClientCertRef(name, certKey, keyKey) == [name |-> name, certKey |-> certKey, keyKey |-> keyKey]

\* the nil pointer of a reference
NoSecretKeyRef == SecretKeyRef("", "")

\* the secrets of the rule's namespace
SecretNames == {"tls"}

\* the data of the secret named "tls"
SecretData ==
    {<<"ca.crt", "CA-PEM">>, <<"empty", "">>, <<"junk", "not pem">>,
     <<"tls.crt", "CERT-PEM">>, <<"tls.key", "KEY-PEM">>, <<"other.key", "KEY2-PEM">>,
     <<"token", "s3cr3t">>}

\* h.k8s.Get of a secret: the error it returns (Nil: the secret)
GetSecret(name) == IF name \in SecretNames THEN Nil ELSE "secret not found"

-----------------------------------------------------------------------------
(* Rules *)

GVK(kind) == [group |-> "", version |-> "v1", kind |-> kind]

Action(mode, schedule) ==
    [type |-> "http", mode |-> mode, schedule |-> schedule,
     expectedStatus |-> "", retry |-> NoRetry,
     headers |-> {}]                   \* header name -> ValueFrom.SecretKeyRef, as pairs

WithHeaders(action, headers) == [action EXCEPT !.headers = headers]

ActOnce == Action("once", "")
ActSchedule == Action("schedule", "30s")
ActCron == Action("cron", "30s")

NoFilter == [set |-> FALSE, nameRegex |-> "", namespaceRegex |-> "", labels |-> {}]

Rule(name, events, filters, actions) ==
    [name |-> name, selector |-> GVK("X"), events |-> events, filters |-> filters,
     actions |-> actions]

\* the rule sets the dispatcher is explored with: rule id -> spec
RuleSets ==
    { [r \in RuleIds |-> IF r = "r1" THEN Rule("a", {"Create"}, NoFilter, <<ActOnce>>)
                         ELSE Rule("b", {"Create", "Delete"}, NoFilter, <<ActOnce, ActSchedule>>)],
      [r \in RuleIds |-> Rule("a", {"Create", "Delete"}, NoFilter, <<ActOnce, ActSchedule>>)],
      [r \in RuleIds |-> IF r = "r1" THEN Rule("a", {"create"}, NoFilter, <<ActCron, ActOnce>>)
                         ELSE Rule("b", {"Delete"}, NoFilter, <<ActOnce, ActOnce>>)] }

\* the rule sets the status update is explored with: immediate actions only
ConflictRuleSets ==
    { [r \in RuleIds |-> Rule(IF r = "r1" THEN "a" ELSE "b", {"Create"}, NoFilter, <<ActOnce>>)] }

\* the rule sets the interval scheduler is explored with
CronRuleSets ==
    { [r \in RuleIds |-> Rule("a", {"Create", "Delete"}, NoFilter, <<ActOnce, ActSchedule>>)] }

\* the rule sets arming is explored with when schedules may be malformed: a fixed
\* duration, a cron expression, a phrase
ScheduleRuleSets ==
    { [r \in RuleIds |->
        IF r = "r1" THEN Rule("a", {"Create"}, NoFilter, <<ActOnce, Action("schedule", "5m")>>)
        ELSE Rule("b", {"Create", "Delete"}, NoFilter, <<Action("schedule", "*/5 * * * *")>>)],
      [r \in RuleIds |->
        IF r = "r1" THEN Rule("a", {"Create", "Delete"}, NoFilter,
                              <<Action("schedule", "every 5m"), ActSchedule>>)
        ELSE Rule("b", {"Delete"}, NoFilter, <<ActOnce>>)] }

\* an immediate action with one header taken from a secret
ActHeader(name, key) == WithHeaders(ActOnce, {<<"Authorization", SecretKeyRef(name, key)>>})

\* the rule sets header resolution is explored with: a resolvable reference, a key the
\* secret does not hold, a secret that does not exist
HeaderRuleSets ==
    { [r \in RuleIds |->
        IF r = "r1" THEN Rule("a", {"Create"}, NoFilter, <<ActHeader("tls", "token")>>)
        ELSE Rule("b", {"Create", "Delete"}, NoFilter, <<ActHeader("tls", "nokey")>>)],
      [r \in RuleIds |->
        IF r = "r1" THEN Rule("a", {"Create"}, NoFilter, <<ActHeader("absent", "token")>>)
        ELSE Rule("b", {"Delete"}, NoFilter, <<ActOnce, ActHeader("absent", "token")>>)],
      [r \in RuleIds |->
        IF r = "r1" THEN Rule("a", {"Delete"}, NoFilter, <<ActOnce, ActHeader("tls", "nokey")>>)
        ELSE Rule("b", {"Create"}, NoFilter, <<ActHeader("tls", "token"), ActOnce>>)] }

Filter(nameRegex, namespaceRegex, labels) ==
    [set |-> TRUE, nameRegex |-> nameRegex, namespaceRegex |-> namespaceRegex,
     labels |-> labels]

\* the rule sets the action loop is explored with: several immediate actions, actions
\* the loop skips, a header that does not resolve, an action that is also armed
OrderRuleSets ==
    { [r \in RuleIds |->
        IF r = "r1"
        THEN Rule("a", {"Create"}, NoFilter,
                  <<ActOnce, ActCron, [ActOnce EXCEPT !.type = "exec"], ActOnce, ActOnce>>)
        ELSE Rule("b", {"Delete"}, NoFilter,
                  <<ActOnce, WithHeaders(ActOnce, {<<"Authorization",
                                                      SecretKeyRef("absent", "token")>>}),
                    ActOnce>>)],
      [r \in RuleIds |->
        IF r = "r1" THEN Rule("a", {"Create"}, NoFilter, <<ActSchedule, ActOnce, ActOnce>>)
        ELSE Rule("b", {"Create", "Delete"}, NoFilter, <<ActOnce, ActOnce>>)] }

\* the rule sets arming is explored with when rules carry filters
FilterArmRuleSets ==
    { [r \in RuleIds |->
        IF r = "r1" THEN Rule("a", {"Create"}, Filter("^web-", "", {}), <<ActSchedule>>)
        ELSE Rule("b", {"Create", "Delete"}, Filter("", "^prod$", {<<"app", "x">>}),
                  <<ActOnce, ActSchedule>>)],
      [r \in RuleIds |->
        IF r = "r1" THEN Rule("a", {"Delete"}, NoFilter, <<ActSchedule>>)
        ELSE Rule("b", {"Create"}, Filter("", "", {<<"app", "y">>}), <<ActSchedule>>)] }

\* the rule sets the matcher is explored with: filters of every kind, a malformed
\* pattern, an empty filter, another kind
FilterRuleSets ==
    { [r \in RuleIds |->
        IF r = "r1" THEN Rule("a", {"Create"}, Filter("^web-", "", {}), <<ActOnce>>)
        ELSE Rule("b", {"Create", "Delete"}, Filter("", "^prod$", {<<"app", "x">>}),
                  <<ActOnce>>)],
      [r \in RuleIds |->
        IF r = "r1" THEN Rule("a", {"Create", "Delete"}, Filter("(", "", {}), <<ActOnce>>)
        ELSE Rule("b", {"Create"}, Filter("d", "d", {}), <<ActOnce>>)],
      [r \in RuleIds |->
        IF r = "r1" THEN Rule("a", {"Delete"}, NoFilter, <<ActOnce>>)
        ELSE Rule("b", {"Create", "Delete"}, Filter("", "", {}), <<ActOnce>>)],
      [r \in RuleIds |->
        IF r = "r1"
        THEN [Rule("a", {"Create"}, NoFilter, <<ActOnce>>) EXCEPT !.selector = GVK("Y")]
        ELSE Rule("b", {"Create"}, Filter("", "", {<<"app", "y">>}), <<ActOnce>>)] }

\* the responses the action endpoint gives to the dispatcher's calls
DispatchResponses == {StatusResp(200, "ok"), StatusResp(404, "gone")}

-----------------------------------------------------------------------------
(* Rule matching *)

\* strings.EqualFold on the event names that occur
Fold(s) ==
    CASE s \in {"Create", "create"} -> "create"
      [] s \in {"Update", "update"} -> "update"
      [] s \in {"Delete", "delete"} -> "delete"
      [] OTHER -> s

matchesSelector(sel, gvk) ==
    sel.group = gvk.group /\ sel.version = gvk.version /\ sel.kind = gvk.kind

containsEvent(events, ev) == \E e \in events : Fold(e) = Fold(ev)

\* re.MatchString for the filter patterns the model uses, on object names and namespaces
RegexMatch(pattern, s) ==
    CASE pattern = "^web-" -> s \in {"web-1"}
      [] pattern = "^prod$" -> s \in {"prod"}
      [] pattern = "d" -> s \in {"db-1", "prod", "dev"}
      [] OTHER -> FALSE

matchesFilters(filter, obj) ==
    IF ~filter.set THEN TRUE
    ELSE /\ (filter.nameRegex # "" =>
                RegexCompiles(filter.nameRegex) /\ RegexMatch(filter.nameRegex, obj.name))
         /\ (filter.namespaceRegex # "" =>
                RegexCompiles(filter.namespaceRegex)
                /\ RegexMatch(filter.namespaceRegex, obj.namespace))
         /\ \A e \in filter.labels : MapGet(obj.labels, e[1]) = e[2]

\* the comparison with uid and event swapped
alreadyExecutedSwapped(executions, uid, event) ==
    \E i \in DOMAIN executions :
        executions[i].resourceUID = event /\ executions[i].event = uid

alreadyExecuted(executions, uid, event) ==
    \E i \in DOMAIN executions :
        executions[i].resourceUID = uid /\ executions[i].event = event

-----------------------------------------------------------------------------
(* Rule status *)

NoTime == -1

\* metav1.Condition; the caller leaves lastTransitionTime zero (NoTime)
Condition(status, reason, message) ==
    [type |-> "Ready", status |-> status, reason |-> reason, message |-> message,
     observedGeneration |-> 0, lastTransitionTime |-> NoTime]

\* the index of the first stored condition of the given type, 0 if none
FindCondition(conds, type) ==
    IF \E i \in DOMAIN conds : conds[i].type = type
    THEN CHOOSE i \in DOMAIN conds :
            conds[i].type = type /\ \A j \in DOMAIN conds : conds[j].type = type => i <= j
    ELSE 0

\* setCondition stamping every stored condition with the time of the call
setConditionAlwaysNow(conds, generation, cond, now) ==
    LET c1 == [cond EXCEPT !.observedGeneration = generation, !.lastTransitionTime = now]
        i  == FindCondition(conds, cond.type)
    IN  IF i # 0 THEN [conds EXCEPT ![i] = c1] ELSE Append(conds, c1)

\* setCondition(ra, cond) at time now: the new status.conditions
setCondition(conds, generation, cond, now) ==
    LET c1 == [cond EXCEPT !.observedGeneration = generation,
                           !.lastTransitionTime = IF @ = NoTime THEN now ELSE @]
        i  == FindCondition(conds, cond.type)
    IN  IF i # 0
        THEN [conds EXCEPT ![i] =
                [c1 EXCEPT !.lastTransitionTime =
                    IF conds[i].status # cond.status THEN now
                    ELSE conds[i].lastTransitionTime]]
        ELSE Append(conds, c1)

EmptyStatus == [executions |-> <<>>, lastError |-> "", conditions |-> <<>>]

ExecutionRecord(uid, event, at) == [resourceUID |-> uid, event |-> event, executedAt |-> at]

\* the closure given to retry.RetryOnConflict, applied to the re-read rule
ApplyOutcome(latest, record, execErr, now) ==
    [latest EXCEPT
        !.status.executions = Append(@, record),
        !.status.lastError = IF execErr # Nil THEN execErr ELSE "",
        !.status.conditions =
            IF execErr # Nil
            THEN setCondition(@, latest.generation,
                              Condition("False", "ActionFailed", execErr), now)
            ELSE setCondition(@, latest.generation,
                              Condition("True", "ActionSucceeded",
                                        "All actions executed successfully"), now)]

\* retry.DefaultRetry.Steps
RetrySteps == 5

-----------------------------------------------------------------------------
(* State of one caller of onEvent / Execute, and of the rule store *)

NoObject == [uid |-> "", name |-> "", namespace |-> "", labels |-> {}]

NoInput == [event |-> "", gvk |-> GVK(""), obj |-> NoObject]

MatchInput(event, kind, obj) == [event |-> event, gvk |-> GVK(kind), obj |-> obj]

NoRule == [exists |-> FALSE, version |-> 0, generation |-> 0, status |-> EmptyStatus]

NewRule == [exists |-> TRUE, version |-> 1, generation |-> 1, status |-> EmptyStatus]

IdleProc ==
    [pc |-> "idle", call |-> "", by |-> "dispatch", input |-> NoInput,
     pending |-> <<>>,                      \* EnsureForMatch: <<rule, action index>> left to arm
     skipped |-> 0,                         \* EnsureForMatch: the keys this call found registered
     todo |-> <<>>,                         \* Execute: listed rules left that match and are not deduplicated
     calls |-> <<>>,                        \* Execute: the actions called for the current rule
     callErrs |-> <<>>,                     \* Execute: what each of those calls returned
     armErr |-> Nil,                        \* onEvent: what EnsureForMatch returned
     execErr |-> Nil, record |-> ExecutionRecord("", "", NoTime),
     latest |-> NoRule, tries |-> 0,
     ret |-> Nil,                           \* what the last Execute returned
     want |-> {},                           \* the rules this Execute found matching and not deduplicated
     after |-> {},                          \* the rules already completed for this input when it listed
     sentFor |-> {},                        \* the rules this Execute has called the HTTP executor for
     outcome |-> {},                        \* <<rule, execErr>> of the rules this Execute ran
     wrote |-> <<>>]                        \* the rules this Execute has persisted a record for

Streams == { p \in DOMAIN procs : p <= 0 }

TaskProc(h) == h

cronKey(name, uid, i, event) ==
    [ResourceAction |-> name, ResourceUID |-> uid, ActionIndex |-> i, Event |-> event]

\* the rules client.List returns, in list order
RECURSIVE ListFrom(_, _)
ListFrom(st, i) ==
    IF i > Len(RuleList) THEN <<>>
    ELSE (IF st[RuleList[i]].exists THEN <<RuleList[i]>> ELSE <<>>) \o ListFrom(st, i + 1)

ListRules(st) == ListFrom(st, 1)

Indices(seq) == [i \in 1..Len(seq) |-> i]

-----------------------------------------------------------------------------
(* CronEngine.EnsureForMatch *)

\* the action indices of a rule that EnsureForMatch arms
ArmIndices(actions) ==
    SelectSeq(Indices(actions),
              LAMBDA i : actions[i].mode = "schedule" /\ actions[i].schedule # "")

ArmsRule(spec, input) ==
    matchesSelector(spec.selector, input.gvk) /\ containsEvent(spec.events, input.event)

RECURSIVE ArmPairs(_, _, _)
ArmPairs(specs, listed, input) ==
    IF listed = <<>> THEN <<>>
    ELSE LET r   == Head(listed)
             idx == IF ArmsRule(specs[r], input) THEN ArmIndices(specs[r].actions) ELSE <<>>
         IN  [j \in 1..Len(idx) |-> <<r, idx[j]>>] \o ArmPairs(specs, Tail(listed), input)

\* time.ParseDuration on the schedules the model uses
ParseDurationOK(s) == s \in {"30s", "5m"}

\* what onEvent / the caller does once EnsureForMatch has returned
AfterEnsure(p) == IF procs[p].call = "onEvent" THEN "list" ELSE "idle"

\* EnsureForMatch is entered with pr.input: client.List and the selector / event tests,
\* which leave the <<rule, action index>> pairs the action loop will lock the registry for
EnsureForMatchList(p, pr) ==
    LET pend == ArmPairs(ruleSpec, ListRules(store), pr.input)
    IN  procs' = [procs EXCEPT ![p] =
                    [pr EXCEPT !.pending = pend, !.skipped = 0, !.armErr = Nil,
                               !.pc = IF pend # <<>> THEN "arm"
                                      ELSE IF pr.call = "onEvent" THEN "list" ELSE "idle"]]

\* `go c.runCron(jobCtx, ra, action, input)`: a task that fails to parse its schedule returns at once
NewTask(key, r, i, input) ==
    [key |-> key, ra |-> r, idx |-> i, input |-> input,
     fired |-> 0,                           \* the ticks on which the executor was invoked
     state |-> IF ParseDurationOK(ruleSpec[r].actions[i].schedule) THEN "running" ELSE "exited"]

\* the iteration without the `exists` test: the key is registered and a task started anyway
EnsureForMatchArmNoCheck(p) ==
    /\ procs[p].pc = "arm"
    /\ LET r    == Head(procs[p].pending)[1]
           i    == Head(procs[p].pending)[2]
           in   == procs[p].input
           key  == cronKey(ruleSpec[r].name, in.obj.uid, i, in.event)
           rest == Tail(procs[p].pending)
           h    == Len(tasks) + 1
           nxt  == IF rest = <<>> THEN AfterEnsure(p) ELSE "arm"
       IN  /\ jobs' = (key :> h) @@ jobs
           /\ tasks' = Append(tasks, NewTask(key, r, i, in))
           /\ procs' = [procs EXCEPT ![p].pending = rest, ![p].pc = nxt]
                       @@ (TaskProc(h) :> [IdleProc EXCEPT !.by = "tick"])
    /\ UNCHANGED <<ruleSpec, store, clock, sent, completed, budget, nonEngineVars>>

\* one iteration of the action loop: the registry is read and written under c.mu
EnsureForMatchArm(p) ==
    /\ procs[p].pc = "arm"
    /\ procs[p].input.obj # NoObject
    /\ LET r    == Head(procs[p].pending)[1]
           i    == Head(procs[p].pending)[2]
           in   == procs[p].input
           key  == cronKey(ruleSpec[r].name, in.obj.uid, i, in.event)
           rest == Tail(procs[p].pending)
           h    == Len(tasks) + 1
           nxt  == IF rest = <<>> THEN AfterEnsure(p) ELSE "arm"
       IN  IF key \in DOMAIN jobs
           THEN /\ procs' = [procs EXCEPT ![p].pending = rest, ![p].pc = nxt,
                                          ![p].skipped = @ + 1]
                /\ UNCHANGED <<jobs, tasks>>
           ELSE /\ jobs' = jobs @@ (key :> h)
                /\ tasks' = Append(tasks, NewTask(key, r, i, in))
                /\ procs' = [procs EXCEPT ![p].pending = rest, ![p].pc = nxt]
                            @@ (TaskProc(h) :> [IdleProc EXCEPT !.by = "tick"])
    /\ UNCHANGED <<ruleSpec, store, clock, sent, completed, budget, nonEngineVars>>

-----------------------------------------------------------------------------
(* K8sExecutor.Execute *)

\* a listed rule whose actions this Execute runs
RuleRuns(spec, rule, input) ==
    /\ matchesSelector(spec.selector, input.gvk)
    /\ containsEvent(spec.events, input.event)
    /\ matchesFilters(spec.filters, input.obj)
    /\ ~alreadyExecuted(rule.status.executions, input.obj.uid, input.event)

\* resolveHeaders: the header values read from the secrets, or the error of the Get
resolveHeaders(headers) ==
    LET refs == { h \in headers : h[2] # NoSecretKeyRef }
    IN  IF \E h \in refs : GetSecret(h[2].name) # Nil
        THEN [resolved |-> {}, err |-> "secret not found"]
        ELSE [resolved |-> { <<h[1], MapGet(SecretData, h[2].key)>> : h \in refs },
              err |-> Nil]

\* an action the loop does not skip
IsImmediate(action) == action.mode # "cron" /\ action.type = "http"

RECURSIVE RunActionsNoBreak(_, _, _, _, _)
\* the action loop without the `break` after a failed action
RunActionsNoBreak(actions, i, calls, errs, first) ==
    IF i > Len(actions) THEN { [calls |-> calls, errs |-> errs, err |-> first] }
    ELSE IF ~IsImmediate(actions[i]) THEN RunActionsNoBreak(actions, i + 1, calls, errs, first)
    ELSE IF resolveHeaders(actions[i].headers).err # Nil
    THEN RunActionsNoBreak(actions, i + 1, calls, errs,
                           IF first = Nil THEN resolveHeaders(actions[i].headers).err ELSE first)
    ELSE UNION { LET out == HTTPAttemptOutcome(actions[i], 1, resp)
                 IN  RunActionsNoBreak(actions, i + 1, Append(calls, i), Append(errs, out.err),
                                       IF first = Nil THEN out.err ELSE first)
                 : resp \in DispatchResponses }

\* The action loop of one rule from index i on, `calls` being the actions called so far
\* and `errs` what each call returned: every way it can end, as [calls |-> the actions
\* HTTPExecutor.Execute was called for, errs, err |-> execErr], one per choice of the
\* endpoint's responses
RECURSIVE RunActionsFrom(_, _, _, _)
RunActionsFrom(actions, i, calls, errs) ==
    IF i > Len(actions) THEN { [calls |-> calls, errs |-> errs, err |-> Nil] }
    ELSE IF ~IsImmediate(actions[i]) THEN RunActionsFrom(actions, i + 1, calls, errs)
    ELSE IF resolveHeaders(actions[i].headers).err # Nil
    THEN { [calls |-> calls, errs |-> errs, err |-> resolveHeaders(actions[i].headers).err] }
    ELSE UNION { LET out == HTTPAttemptOutcome(actions[i], 1, resp)
                 IN  IF out.err # Nil
                     THEN { [calls |-> Append(calls, i), errs |-> Append(errs, out.err),
                             err |-> out.err] }
                     ELSE RunActionsFrom(actions, i + 1, Append(calls, i), Append(errs, Nil))
                 : resp \in DispatchResponses }

RunActionsWithoutBreak(actions, i, calls) == RunActionsNoBreak(actions, i, calls, <<>>, Nil)

RunActions(actions, i, calls) == RunActionsFrom(actions, i, calls, <<>>)

\* the call of HTTPExecutor.Execute for one action
CallKey(r, i, pr) ==
    [rule |-> r, idx |-> i, uid |-> pr.input.obj.uid, event |-> pr.input.event, by |-> pr.by]

RECURSIVE BumpAll(_, _, _, _)
BumpAll(f, r, calls, pr) ==
    IF calls = <<>> THEN f
    ELSE BumpAll(Bump(f, CallKey(r, Head(calls), pr)), r, Tail(calls), pr)

\* Execute returns err to its caller
Returned(p, pr, err) ==
    /\ procs' = [procs EXCEPT ![p] =
            [pr EXCEPT !.pc = "idle", !.ret = err, !.todo = <<>>, !.calls = <<>>,
                       !.callErrs = <<>>,
                       !.execErr = Nil, !.record = IdleProc.record,
                       !.latest = NoRule, !.tries = 0]]
    /\ completed' = completed \cup
            { <<r, pr.input.obj.uid, pr.input.event>> : r \in Range(pr.wrote) }

\* The actions of rule r are run and the execution record is built at time t;
\* the caller goes on to the conflict-safe status update
RunRule(p, pr, r, t) ==
    \E run \in RunActions(ruleSpec[r].actions, 1, <<>>) :
        /\ sent' = BumpAll(sent, r, run.calls, pr)
        /\ procs' = [procs EXCEPT ![p] =
                [pr EXCEPT !.calls = run.calls, !.callErrs = run.errs, !.execErr = run.err,
                           !.sentFor = IF run.calls # <<>> THEN @ \cup {r} ELSE @,
                           !.outcome = @ \cup {<<r, run.err>>},
                           !.record = ExecutionRecord(pr.input.obj.uid, pr.input.event, t),
                           !.tries = 0, !.pc = "get"]]

\* the rule loop of Execute calls a method of input.Obj for this rule: in matchesFilters
\* once a pattern has compiled or labels are compared, else in input.Obj.GetUID()
RuleReadsObj(spec, input) ==
    /\ matchesSelector(spec.selector, input.gvk)
    /\ containsEvent(spec.events, input.event)
    /\ LET f == spec.filters
       IN  \/ ~f.set
           \/ f.nameRegex # "" /\ RegexCompiles(f.nameRegex)
           \/ f.nameRegex = "" /\ f.namespaceRegex # "" /\ RegexCompiles(f.namespaceRegex)
           \/ f.nameRegex = "" /\ f.namespaceRegex = ""

\* Execute was given a nil object and reaches a rule for which it reads the object
ExecuteDerefsNil(input) ==
    /\ input.obj = NoObject
    /\ \E r \in Range(ListRules(store)) : RuleReadsObj(ruleSpec[r], input)

\* a nil pointer dereference: computing the key in EnsureForMatch, or in the rule loop
\* of Execute; the process panics
NilDereference(p) ==
    /\ \/ procs[p].pc = "arm" /\ procs[p].input.obj = NoObject
       \/ procs[p].pc = "list" /\ ExecuteDerefsNil(procs[p].input)
    /\ procs' = [procs EXCEPT ![p].pc = "panic"]
    /\ UNCHANGED <<ruleSpec, store, clock, jobs, tasks, sent, completed, budget, nonEngineVars>>

\* client.List, the match and dedup tests of the loop (they read the listed items only),
\* and the actions of the first rule that runs
ExecuteList(p) ==
    /\ procs[p].pc = "list"
    /\ ~ExecuteDerefsNil(procs[p].input)
    /\ LET in     == procs[p].input
           listed == ListRules(store)
           run    == SelectSeq(listed, LAMBDA r : RuleRuns(ruleSpec[r], store[r], in))
           pr     == [procs[p] EXCEPT
                        !.todo = run, !.calls = <<>>, !.execErr = Nil, !.tries = 0,
                        !.want = Range(run),
                        !.after = { r \in RuleIds : <<r, in.obj.uid, in.event>> \in completed },
                        !.sentFor = {}, !.outcome = {}, !.wrote = <<>>]
       IN  IF run = <<>>
           THEN Returned(p, pr, Nil) /\ UNCHANGED sent
           ELSE /\ RunRule(p, pr, Head(run), clock)
                /\ UNCHANGED completed
    /\ UNCHANGED <<ruleSpec, store, clock, jobs, tasks, budget, nonEngineVars>>

NotFoundMsg(r) == "resourceactions \"" \o r \o "\" not found"

ConflictMsg(r) == "Operation cannot be fulfilled on resourceactions \"" \o r \o "\": the object has been modified"

\* the closure's client.Get of the latest rule
ExecuteGet(p) ==
    /\ procs[p].pc = "get"
    /\ LET pr == procs[p]
           r  == Head(pr.todo)
       IN  IF ~store[r].exists
           THEN Returned(p, pr, NotFoundMsg(r))
           ELSE procs' = [procs EXCEPT ![p] = [pr EXCEPT !.latest = store[r], !.pc = "update"]]
                /\ UNCHANGED completed
    /\ UNCHANGED <<ruleSpec, store, clock, jobs, tasks, sent, budget, nonEngineVars>>

\* the status update whose retry does not read the rule again
ExecuteUpdateStaleRetry(p) ==
    /\ procs[p].pc = "update"
    /\ LET pr == procs[p]
           r  == Head(pr.todo)
       IN  IF ~store[r].exists
           THEN Returned(p, pr, NotFoundMsg(r)) /\ UNCHANGED <<store, sent>>
           ELSE IF store[r].version # pr.latest.version
           THEN /\ UNCHANGED <<store, sent>>
                /\ IF pr.tries + 1 >= RetrySteps
                   THEN Returned(p, pr, ConflictMsg(r))
                   ELSE procs' = [procs EXCEPT ![p] =
                                    [pr EXCEPT !.tries = @ + 1, !.pc = "update"]]
                        /\ UNCHANGED completed
           ELSE LET new == ApplyOutcome(pr.latest, pr.record, pr.execErr, clock)
                    pr1 == [pr EXCEPT !.wrote = Append(@, r)]
                IN  /\ store' = [store EXCEPT ![r] = [new EXCEPT !.version = @ + 1]]
                    /\ IF pr.execErr # Nil
                       THEN Returned(p, pr1, pr.execErr) /\ UNCHANGED sent
                       ELSE IF Tail(pr.todo) = <<>>
                       THEN Returned(p, pr1, Nil) /\ UNCHANGED sent
                       ELSE /\ RunRule(p, [pr1 EXCEPT !.todo = Tail(@)],
                                       Head(Tail(pr.todo)), clock)
                            /\ UNCHANGED completed
    /\ UNCHANGED <<ruleSpec, clock, jobs, tasks, budget, nonEngineVars>>

\* the status update as it would be if the API server accepted a write over any version
ExecuteUpdateAnyVersion(p) ==
    /\ procs[p].pc = "update"
    /\ LET pr == procs[p]
           r  == Head(pr.todo)
       IN  IF ~store[r].exists
           THEN Returned(p, pr, NotFoundMsg(r)) /\ UNCHANGED <<store, sent>>
           ELSE LET new == ApplyOutcome(pr.latest, pr.record, pr.execErr, clock)
                    pr1 == [pr EXCEPT !.wrote = Append(@, r)]
                IN  /\ store' = [store EXCEPT ![r] = [new EXCEPT !.version = store[r].version + 1]]
                    /\ IF pr.execErr # Nil
                       THEN Returned(p, pr1, pr.execErr) /\ UNCHANGED sent
                       ELSE IF Tail(pr.todo) = <<>>
                       THEN Returned(p, pr1, Nil) /\ UNCHANGED sent
                       ELSE /\ RunRule(p, [pr1 EXCEPT !.todo = Tail(@)],
                                       Head(Tail(pr.todo)), clock)
                            /\ UNCHANGED completed
    /\ UNCHANGED <<ruleSpec, clock, jobs, tasks, budget, nonEngineVars>>

\* The closure's append, setCondition and Status().Update; on a conflict the closure
\* is run again; after the retry loop Execute returns or goes on to the next rule
ExecuteUpdate(p) ==
    /\ procs[p].pc = "update"
    /\ LET pr == procs[p]
           r  == Head(pr.todo)
       IN  IF ~store[r].exists
           THEN Returned(p, pr, NotFoundMsg(r)) /\ UNCHANGED <<store, sent>>
           ELSE IF store[r].version # pr.latest.version
           THEN /\ UNCHANGED <<store, sent>>
                /\ IF pr.tries + 1 >= RetrySteps
                   THEN Returned(p, pr, ConflictMsg(r))
                   ELSE procs' = [procs EXCEPT ![p] =
                                    [pr EXCEPT !.tries = @ + 1, !.pc = "get"]]
                        /\ UNCHANGED completed
           ELSE LET new == ApplyOutcome(pr.latest, pr.record, pr.execErr, clock)
                    pr1 == [pr EXCEPT !.wrote = Append(@, r)]
                IN  /\ store' = [store EXCEPT ![r] = [new EXCEPT !.version = @ + 1]]
                    /\ IF pr.execErr # Nil
                       THEN Returned(p, pr1, pr.execErr) /\ UNCHANGED sent
                       ELSE IF Tail(pr.todo) = <<>>
                       THEN Returned(p, pr1, Nil) /\ UNCHANGED sent
                       ELSE /\ RunRule(p, [pr1 EXCEPT !.todo = Tail(@)],
                                       Head(Tail(pr.todo)), clock)
                            /\ UNCHANGED completed
    /\ UNCHANGED <<ruleSpec, clock, jobs, tasks, budget, nonEngineVars>>

-----------------------------------------------------------------------------
(* The watch stream, the interval tasks and the rule's owner *)

\* an informer handler calls onEvent with a notification, and onEvent calls EnsureForMatch
\* (Engine.onEvent)
Dispatch(p) ==
    /\ p \in Streams
    /\ procs[p].pc = "idle"
    /\ budget.dispatch > 0
    /\ \E ev \in EventTypes, obj \in Objects :
        EnsureForMatchList(p, [procs[p] EXCEPT !.call = "onEvent",
                                                !.input = MatchInput(ev, "X", obj)])
    /\ budget' = [budget EXCEPT !.dispatch = @ - 1]
    /\ clock' = clock + 1
    /\ UNCHANGED <<ruleSpec, store, jobs, tasks, sent, completed, nonEngineVars>>

\* the parent of the context EnsureForMatch hands to runCron
JobCtxParent == "Background"

\* ctx.Done() of a task's context is closed: its cancel function was called (no code
\* calls the functions stored in c.jobs) or its parent context is done
JobCtxDone(h) ==
    /\ JobCtxParent # "Background"
    /\ ctx.done

\* onEvent when the List of EnsureForMatch fails: the error is logged and Execute is called
DispatchListFails(p) ==
    /\ p \in Streams
    /\ procs[p].pc = "idle"
    /\ budget.dispatch > 0
    /\ \E ev \in EventTypes, obj \in Objects :
        procs' = [procs EXCEPT ![p] =
                    [@ EXCEPT !.call = "onEvent", !.input = MatchInput(ev, "X", obj),
                              !.pending = <<>>, !.skipped = 0,
                              !.armErr = "list failed", !.pc = "list"]]
    /\ budget' = [budget EXCEPT !.dispatch = @ - 1]
    /\ clock' = clock + 1
    /\ UNCHANGED <<ruleSpec, store, jobs, tasks, sent, completed, nonEngineVars>>

\* runCron: one round of the select, which takes the ticker's case or, when the task's
\* context is done, either case
Tick(h) ==
    /\ h \in 1..Len(tasks)
    /\ tasks[h].state = "running"
    /\ procs[TaskProc(h)].pc = "idle"
    /\ budget.ticks > 0
    /\ budget' = [budget EXCEPT !.ticks = @ - 1]
    /\ \E takeDone \in (IF JobCtxDone(h) THEN BOOLEAN ELSE {FALSE}) :
        IF \/ takeDone
           \/ tasks[h].input.event # EventDelete /\ ~store[tasks[h].ra].exists
        THEN /\ tasks' = [tasks EXCEPT ![h].state = "exited"]
             /\ UNCHANGED procs
        ELSE /\ procs' = [procs EXCEPT ![TaskProc(h)] =
                             [@ EXCEPT !.pc = "list", !.call = "tick", !.input = tasks[h].input]]
             /\ tasks' = [tasks EXCEPT ![h].fired = @ + 1]
    /\ clock' = clock + 1
    /\ UNCHANGED <<ruleSpec, store, jobs, sent, completed, nonEngineVars>>

\* the rule's owner deletes the rule
RemoveRule(r) ==
    /\ store[r].exists
    /\ store' = [store EXCEPT ![r].exists = FALSE]
    /\ UNCHANGED <<ruleSpec, clock, jobs, tasks, procs, sent, completed, budget, nonEngineVars>>

-----------------------------------------------------------------------------
(* Engine.EnsureWatching *)

Kinds == {"Pod", "Widget"}

Reconcilers == {"c1", "c2"}

\* APIResource.Name of a kind: the plural
ResourceName(kind) == IF kind = "Pod" THEN "pods" ELSE "widgets"

GVR(gvk) == [group |-> gvk.group, version |-> gvk.version, resource |-> ResourceName(gvk.kind)]

GVRs == { GVR(GVK(k)) : k \in Kinds }

NotFoundInDiscovery(gvk) == "resolve GVR: kind not found: " \o gvk.kind

\* a mapping that never consults discovery
restMappingAny(d, gvk) == [gvr |-> GVR(gvk), err |-> Nil]

\* restMapping: the resource is found iff discovery serves the kind
restMapping(d, gvk) ==
    IF gvk.kind \in d
    THEN [gvr |-> GVR(gvk), err |-> Nil]
    ELSE [gvr |-> GVR(gvk), err |-> NotFoundInDiscovery(gvk)]

IdleRecon ==
    [pc |-> "idle", gvk |-> GVK(""), gvr |-> GVR(GVK("")), ret |-> Nil,
     failed |-> {}]                          \* the kinds this reconciler saw rejected

\* the manager's context before the shutdown signal; `fired` records, once the signal
\* is given, how often each interval task had invoked the executor by then
LiveCtx == [done |-> FALSE, fired |-> <<>>]

WatchAtRest ==
    /\ disco = {}
    /\ informers = {}
    /\ handlers = [g \in GVRs |-> 0]
    /\ started = FALSE
    /\ cronStarted = FALSE
    /\ startPending = 0
    /\ running = {}
    /\ recon = [c \in Reconcilers |-> IdleRecon]
    /\ succeeded = [g \in GVRs |-> 0]
    /\ raw = [g \in GVRs |-> 0]
    /\ onEvents = [g \in GVRs |-> 0]
    /\ wbudget = [calls |-> 0, notifs |-> 0]
    /\ ctx = LiveCtx

\* EnsureWatching up to the mutex: ResolveGVR runs before e.mu.Lock()
EnsureWatchingResolve(c) ==
    /\ recon[c].pc = "idle"
    /\ wbudget.calls > 0
    /\ \E kind \in Kinds :
        LET m == restMapping(disco, GVK(kind))
        IN  recon' = [recon EXCEPT ![c] =
                IF m.err # Nil
                THEN [@ EXCEPT !.gvk = GVK(kind), !.gvr = m.gvr, !.ret = m.err,
                               !.failed = @ \cup {kind}]
                ELSE [@ EXCEPT !.gvk = GVK(kind), !.gvr = m.gvr, !.ret = Nil,
                               !.pc = "lock"]]
    /\ wbudget' = [wbudget EXCEPT !.calls = @ - 1]
    /\ UNCHANGED <<disco, informers, handlers, started, cronStarted, startPending, running,
                   succeeded, raw, onEvents, ctx, engineVars, http>>

\* the critical section without the registry lookup
EnsureWatchingRegisterNoLookup(c) ==
    /\ recon[c].pc = "lock"
    /\ LET gvr == recon[c].gvr
       IN  /\ handlers' = [handlers EXCEPT ![gvr] = @ + 1]
           /\ informers' = informers \cup {gvr}
           /\ succeeded' = [succeeded EXCEPT ![gvr] = @ + 1]
           /\ started' = TRUE
           /\ cronStarted' = (cronStarted \/ ~started)
           /\ startPending' = IF started THEN startPending ELSE startPending + 1
    /\ recon' = [recon EXCEPT ![c].pc = "idle"]
    /\ UNCHANGED <<disco, running, raw, onEvents, wbudget, ctx, engineVars, http>>

\* EnsureWatching under e.mu: registry lookup, handler, registration, single-shot start
EnsureWatchingRegister(c) ==
    /\ recon[c].pc = "lock"
    /\ LET gvr == recon[c].gvr
       IN  /\ succeeded' = [succeeded EXCEPT ![gvr] = @ + 1]
           /\ IF gvr \in informers
              THEN UNCHANGED <<handlers, informers, started, cronStarted, startPending>>
              ELSE /\ handlers' = [handlers EXCEPT ![gvr] = @ + 1]
                   /\ informers' = informers \cup {gvr}
                   /\ started' = TRUE
                   /\ cronStarted' = (cronStarted \/ ~started)
                   /\ startPending' = IF started THEN startPending ELSE startPending + 1
    /\ recon' = [recon EXCEPT ![c].pc = "idle"]
    /\ UNCHANGED <<disco, running, raw, onEvents, wbudget, ctx, engineVars, http>>

\* the goroutine of `go e.factory.Start(...)`: it starts the informers the factory
\* holds when it runs
FactoryStart ==
    /\ startPending > 0
    /\ startPending' = startPending - 1
    /\ running' = running \cup informers
    /\ UNCHANGED <<disco, informers, handlers, started, cronStarted, recon, succeeded,
                   raw, onEvents, wbudget, ctx, engineVars, http>>

\* a running informer produces a notification; each of its handlers calls onEvent
Notify(gvr) ==
    /\ gvr \in running
    /\ ~ctx.done
    /\ wbudget.notifs > 0
    /\ raw' = [raw EXCEPT ![gvr] = @ + 1]
    /\ onEvents' = [onEvents EXCEPT ![gvr] = @ + handlers[gvr]]
    /\ wbudget' = [wbudget EXCEPT !.notifs = @ - 1]
    /\ UNCHANGED <<disco, informers, handlers, started, cronStarted, startPending, running,
                   recon, succeeded, ctx, engineVars, http>>

\* the API server begins to serve a kind (a CRD is installed)
InstallKind(kind) ==
    /\ kind \notin disco
    /\ disco' = disco \cup {kind}
    /\ UNCHANGED <<informers, handlers, started, cronStarted, startPending, running,
                   recon, succeeded, raw, onEvents, wbudget, ctx, engineVars, http>>

-----------------------------------------------------------------------------
(* HTTPExecutor.Execute *)

Retry(maxAttempts, retryOnNetworkError, retryOnStatus) ==
    [set |-> TRUE, maxAttempts |-> maxAttempts, retryOnNetworkError |-> retryOnNetworkError,
     retryOnStatus |-> retryOnStatus, backoff |-> "", maxBackoff |-> ""]

RetryBackoff(maxAttempts, backoff, maxBackoff) ==
    [set |-> TRUE, maxAttempts |-> maxAttempts, retryOnNetworkError |-> Nil,
     retryOnStatus |-> <<>>, backoff |-> backoff, maxBackoff |-> maxBackoff]

\* the nil pointer of a client certificate reference
NoClientCertRef == TLSClientCertRef("", "", "")

NoTLS == [set |-> FALSE, caSecretRef |-> NoSecretKeyRef, clientCertSecretRef |-> NoClientCertRef]

TLS(caSecretRef, clientCertSecretRef) ==
    [set |-> TRUE, caSecretRef |-> caSecretRef, clientCertSecretRef |-> clientCertSecretRef]

\* pool.AppendCertsFromPEM: whether at least one certificate was parsed
AppendCertsFromPEM(pem) == pem \in {"CA-PEM", "CERT-PEM"}

\* tls.X509KeyPair: whether the certificate and the private key parse and belong together
X509KeyPair(certPEM, keyPEM) == certPEM = "CERT-PEM" /\ keyPEM = "KEY-PEM"

\* template.Parse and Template.Execute on the object: the error (Nil: rendered)
RenderBody(template) ==
    IF template = "{{" THEN "template: unclosed action"
    ELSE IF template = "{{.metadata.name.first}}" THEN "template: can't evaluate field first"
    ELSE Nil

HTTPAction(expectedStatus, retry, tls, url) ==
    [type |-> "http", mode |-> "once", schedule |-> "", expectedStatus |-> expectedStatus,
     retry |-> retry, tls |-> tls, url |-> url, body |-> ""]

WithBody(action, template) == [action EXCEPT !.body = template]

\* the TLS settings explored: none, a CA bundle, a client certificate, and each way in
\* which either can be unusable
TLSSpecs ==
    {NoTLS, TLS(SecretKeyRef("tls", "ca.crt"), NoClientCertRef),
     TLS(NoSecretKeyRef, TLSClientCertRef("tls", "tls.crt", "tls.key")),
     TLS(SecretKeyRef("tls", "missing"), NoClientCertRef), TLS(SecretKeyRef("tls", "empty"), NoClientCertRef),
     TLS(SecretKeyRef("tls", "junk"), NoClientCertRef), TLS(SecretKeyRef("absent", "ca.crt"), NoClientCertRef),
     TLS(NoSecretKeyRef, TLSClientCertRef("tls", "empty", "tls.key")),
     TLS(NoSecretKeyRef, TLSClientCertRef("tls", "tls.crt", "missing")),
     TLS(NoSecretKeyRef, TLSClientCertRef("tls", "tls.crt", "other.key")),
     TLS(NoSecretKeyRef, TLSClientCertRef("tls", "junk", "tls.key")),
     TLS(SecretKeyRef("tls", "ca.crt"), TLSClientCertRef("absent", "tls.crt", "tls.key"))}

BodyTemplates == {"", "{\"name\": \"{{.metadata.name}}\"}", "{{", "{{.metadata.name.first}}"}

\* the policy of the documented example: three attempts, retry on 503
ExampleAction == HTTPAction("", Retry(3, Nil, <<503>>), NoTLS, "http://svc")

HTTPActions ==
    { WithBody(HTTPAction(es, rt, tl, u), b) :
        es \in {"", "^(4..|5..)$", "("},
        rt \in {NoRetry, Retry(3, Nil, <<503>>), Retry(2, "false", <<>>),
                Retry(0, "true", <<404>>), Retry(-1, Nil, <<503, 404>>)},
        tl \in TLSSpecs,
        u \in {"http://svc", ":bad"},
        b \in BodyTemplates }

ConnReset == [netError |-> TRUE, timeout |-> FALSE, temporary |-> FALSE,
              msg |-> "read: connection reset by peer"]

ConnRefused == [netError |-> TRUE, timeout |-> FALSE, temporary |-> FALSE,
                msg |-> "connect: connection refused"]

\* the client's timeout elapsed: a net.Error whose Timeout() is true
DeadlineExceeded == [netError |-> TRUE, timeout |-> TRUE, temporary |-> FALSE,
                     msg |-> "context deadline exceeded"]

\* what httpClient.Do may return
Responses ==
    { StatusResp(200, "ok"), StatusResp(404, "gone"), StatusResp(503, "busy"),
      NetErrResp(ConnReset), NetErrResp(ConnRefused), NetErrResp(DeadlineExceeded) }

\* buildTransport without the parse of the CA bundle
buildTransportNoPEMParse(tlsSpec) ==
    LET ca == tlsSpec.caSecretRef
    IN  IF ~tlsSpec.set \/ ca = NoSecretKeyRef THEN Nil
        ELSE IF GetSecret(ca.name) # Nil THEN GetSecret(ca.name)
        ELSE IF MapGet(SecretData, ca.key) = "" THEN "caSecretRef key empty"
        ELSE Nil

\* buildTransport: the error it returns (Nil: a transport)
buildTransport(tlsSpec) ==
    LET ca == tlsSpec.caSecretRef
        cl == tlsSpec.clientCertSecretRef
        caErr ==
            IF ca = NoSecretKeyRef THEN Nil
            ELSE IF GetSecret(ca.name) # Nil THEN GetSecret(ca.name)
            ELSE IF MapGet(SecretData, ca.key) = "" THEN "caSecretRef key empty"
            ELSE IF ~AppendCertsFromPEM(MapGet(SecretData, ca.key))
            THEN "failed to parse CA PEM"
            ELSE Nil
        clErr ==
            IF cl = NoClientCertRef THEN Nil
            ELSE IF GetSecret(cl.name) # Nil THEN GetSecret(cl.name)
            ELSE IF MapGet(SecretData, cl.certKey) = "" \/ MapGet(SecretData, cl.keyKey) = ""
            THEN "clientCertSecretRef missing cert/key"
            ELSE IF ~X509KeyPair(MapGet(SecretData, cl.certKey), MapGet(SecretData, cl.keyKey))
            THEN "tls: failed to load key pair"
            ELSE Nil
    IN  IF ~tlsSpec.set THEN Nil
        ELSE IF caErr # Nil THEN caErr
        ELSE clErr

InvalidRegexMsg == "invalid expectedStatus regex"

\* http.NewRequestWithContext: the error it returns (Nil: a request)
NewRequest(url) == IF url = ":bad" THEN "parse url: missing protocol scheme" ELSE Nil

IdleHTTP ==
    [action |-> ExampleAction, pc |-> "idle", attempt |-> 0, requests |-> 0, ret |-> Nil,
     seen |-> <<>>,                          \* the responses received, in order
     sleep |-> Zero]                         \* the last time.Sleep taken between attempts

\* Execute up to the retry loop: policy, transport, pattern
HTTPExecuteBegin ==
    /\ http.pc = "idle"
    /\ \E action \in HTTPActions :
        LET h == [http EXCEPT !.action = action]
        IN  http' =
                IF buildTransport(action.tls) # Nil
                THEN [h EXCEPT !.pc = "done", !.ret = buildTransport(action.tls)]
                ELSE IF RenderBody(action.body) # Nil
                THEN [h EXCEPT !.pc = "done", !.ret = RenderBody(action.body)]
                ELSE IF ~RegexCompiles(EffPattern(action))
                THEN [h EXCEPT !.pc = "done", !.ret = InvalidRegexMsg]
                ELSE [h EXCEPT !.pc = "loop", !.attempt = 1]
    /\ UNCHANGED <<engineVars, watchVars>>

\* one iteration of the retry loop, the loop test included
HTTPExecuteAttempt ==
    /\ http.pc = "loop"
    /\ IF http.attempt > EffMaxAttempts(http.action)
       THEN http' = [http EXCEPT !.pc = "done", !.ret = ExhaustedMsg(EffMaxAttempts(http.action))]
       ELSE IF NewRequest(http.action.url) # Nil
       THEN http' = [http EXCEPT !.pc = "done", !.ret = NewRequest(http.action.url)]
       ELSE \E resp \in Responses :
            LET out == HTTPAttemptOutcome(http.action, http.attempt, resp)
                h   == [http EXCEPT !.requests = @ + 1, !.seen = Append(@, resp)]
            IN  IF out.retry
                THEN \E sleep \in backoffSleep(EffBackoffBase(http.action),
                                                EffMaxBackoff(http.action), http.attempt) :
                        http' = [h EXCEPT !.attempt = @ + 1, !.sleep = sleep]
                ELSE http' = [h EXCEPT !.pc = "done", !.ret = out.err]
    /\ UNCHANGED <<engineVars, watchVars>>

-----------------------------------------------------------------------------
(* Spec: one watch stream, the tasks it arms, and the rule owner *)

InitEngine(ruleSets, present, nStreams, nDispatch, nTicks) ==
    /\ ruleSpec \in ruleSets
    /\ store = [r \in RuleIds |-> IF r \in present THEN NewRule ELSE NoRule]
    /\ clock = 0
    /\ jobs = <<>>
    /\ tasks = <<>>
    /\ procs = [p \in (1 - nStreams)..0 |-> IdleProc]
    /\ sent = <<>>
    /\ completed = {}
    /\ budget = [dispatch |-> nDispatch, ticks |-> nTicks]

Init == InitEngine(RuleSets, RuleIds, 1, MaxDispatch, 0) /\ WatchAtRest /\ http = IdleHTTP

Next ==
    \/ \E p \in DOMAIN procs :
        \/ Dispatch(p)
        \/ EnsureForMatchArm(p)
        \/ ExecuteList(p)
        \/ ExecuteGet(p)
        \/ ExecuteUpdate(p)
    \/ \E r \in RuleIds : RemoveRule(r)

Spec == Init /\ [][Next]_vars

-----------------------------------------------------------------------------
(* SpecCron: the watch stream together with the interval tasks it arms *)

InitCron ==
    InitEngine(CronRuleSets, {"r1"}, 1, MaxCronDispatch, MaxTicks) /\ WatchAtRest /\ http = IdleHTTP

NextCron ==
    \/ \E p \in DOMAIN procs :
        \/ Dispatch(p)
        \/ EnsureForMatchArm(p)
        \/ ExecuteList(p)
        \/ ExecuteGet(p)
        \/ ExecuteUpdate(p)
    \/ \E h \in 1..Len(tasks) : Tick(h)
    \/ \E r \in RuleIds : RemoveRule(r)

SpecCron == InitCron /\ [][NextCron]_vars

-----------------------------------------------------------------------------
(* SpecHeaders: the dispatcher on rules whose actions take headers from secrets *)

InitHeaders ==
    InitEngine(HeaderRuleSets, RuleIds, 1, MaxHeaderDispatch, 0) /\ WatchAtRest /\ http = IdleHTTP

NextHeaders ==
    \E p \in DOMAIN procs :
        \/ Dispatch(p)
        \/ ExecuteList(p)
        \/ ExecuteGet(p)
        \/ ExecuteUpdate(p)

SpecHeaders == InitHeaders /\ [][NextHeaders]_vars

-----------------------------------------------------------------------------
(* SpecShutdown: the interval tasks and the manager's shutdown signal *)

\* the manager cancels the context it gave to EnsureWatching and CronEngine.Start
Shutdown ==
    /\ ~ctx.done
    /\ ctx' = [done |-> TRUE, fired |-> [h \in 1..Len(tasks) |-> tasks[h].fired]]
    /\ UNCHANGED <<engineVars, http, disco, informers, handlers, started, cronStarted,
                   startPending, running, recon, succeeded, raw, onEvents, wbudget>>

NextShutdown ==
    \/ NextCron
    \/ Shutdown

SpecShutdown == InitCron /\ [][NextShutdown]_vars

-----------------------------------------------------------------------------
(* SpecMatch: the dispatcher over rules with filters *)

InitMatch ==
    InitEngine(FilterRuleSets, RuleIds, 1, MaxMatchDispatch, 0) /\ WatchAtRest /\ http = IdleHTTP

NextMatch ==
    \E p \in DOMAIN procs :
        \/ Dispatch(p)
        \/ ExecuteList(p)
        \/ ExecuteGet(p)
        \/ ExecuteUpdate(p)

SpecMatch == InitMatch /\ [][NextMatch]_vars

-----------------------------------------------------------------------------
(* SpecConflict: the dispatcher beside another writer of the rules *)

\* another client updates the rule object: its resourceVersion moves on
TouchRule(r) ==
    /\ store[r].exists
    /\ store[r].version < MaxRuleVersion
    /\ store' = [store EXCEPT ![r].version = @ + 1]
    /\ UNCHANGED <<ruleSpec, clock, jobs, tasks, procs, sent, completed, budget,
                   nonEngineVars>>

InitConflict ==
    /\ InitEngine(ConflictRuleSets, RuleIds, 1, MaxConflictDispatch, 0)
    /\ WatchAtRest
    /\ http = IdleHTTP

NextConflict ==
    \/ \E p \in DOMAIN procs :
        \/ Dispatch(p)
        \/ ExecuteList(p)
        \/ ExecuteGet(p)
        \/ ExecuteUpdate(p)
    \/ \E r \in RuleIds :
        \/ TouchRule(r)
        \/ RemoveRule(r)

SpecConflict == InitConflict /\ [][NextConflict]_vars

-----------------------------------------------------------------------------
(* SpecArm: concurrent callers of CronEngine.EnsureForMatch *)

\* a caller enters EnsureForMatch with a notification
ArmCall(p) ==
    /\ p \in Streams
    /\ procs[p].pc = "idle"
    /\ budget.dispatch > 0
    /\ \E ev \in EventTypes, obj \in Objects :
        EnsureForMatchList(p, [procs[p] EXCEPT !.call = "EnsureForMatch",
                                                !.input = MatchInput(ev, "X", obj)])
    /\ budget' = [budget EXCEPT !.dispatch = @ - 1]
    /\ UNCHANGED <<ruleSpec, store, clock, jobs, tasks, sent, completed, nonEngineVars>>

InitArm == InitEngine(RuleSets, RuleIds, 2, MaxArmCalls, 0) /\ WatchAtRest /\ http = IdleHTTP

NextArm ==
    \/ \E p \in DOMAIN procs :
        \/ ArmCall(p)
        \/ EnsureForMatchArm(p)
    \/ \E r \in RuleIds : RemoveRule(r)

SpecArm == InitArm /\ [][NextArm]_vars

-----------------------------------------------------------------------------
(* SpecSchedule: EnsureForMatch on rules whose schedules may be malformed *)

InitSchedule ==
    InitEngine(ScheduleRuleSets, RuleIds, 2, MaxScheduleCalls, 0) /\ WatchAtRest /\ http = IdleHTTP

NextSchedule ==
    \E p \in DOMAIN procs :
        \/ ArmCall(p)
        \/ EnsureForMatchArm(p)

SpecSchedule == InitSchedule /\ [][NextSchedule]_vars

-----------------------------------------------------------------------------
(* SpecFilterArm: EnsureForMatch on rules that carry filters *)

InitFilterArm ==
    InitEngine(FilterArmRuleSets, RuleIds, 2, MaxFilterArmCalls, 0) /\ WatchAtRest /\ http = IdleHTTP

NextFilterArm ==
    \E p \in DOMAIN procs :
        \/ ArmCall(p)
        \/ EnsureForMatchArm(p)

SpecFilterArm == InitFilterArm /\ [][NextFilterArm]_vars

-----------------------------------------------------------------------------
(* SpecWriters: two watch streams whose Executes write to the same rules *)

InitWriters ==
    InitEngine(ConflictRuleSets, RuleIds, 2, MaxWriterDispatch, 0) /\ WatchAtRest /\ http = IdleHTTP

NextWriters ==
    \E p \in DOMAIN procs :
        \/ Dispatch(p)
        \/ ExecuteList(p)
        \/ ExecuteGet(p)
        \/ ExecuteUpdate(p)

SpecWriters == InitWriters /\ [][NextWriters]_vars

-----------------------------------------------------------------------------
(* SpecOrder: onEvent on rules with several actions; EnsureForMatch may fail *)

InitOrder ==
    InitEngine(OrderRuleSets, RuleIds, 1, MaxOrderDispatch, 0) /\ WatchAtRest /\ http = IdleHTTP

NextOrder ==
    \E p \in DOMAIN procs :
        \/ Dispatch(p)
        \/ DispatchListFails(p)
        \/ EnsureForMatchArm(p)
        \/ ExecuteList(p)
        \/ ExecuteGet(p)
        \/ ExecuteUpdate(p)

SpecOrder == InitOrder /\ [][NextOrder]_vars

-----------------------------------------------------------------------------
(* SpecDelete: delete notifications, live or as tombstones, through onEvent *)

\* what the informer hands to DeleteFunc: the object, a cache.DeletedFinalStateUnknown
\* holding its last known state or nothing usable, or a value of another type
LiveObject(obj) == [type |-> "Unstructured", obj |-> obj]

Tombstone(obj) == [type |-> "DeletedFinalStateUnknown", obj |-> obj]

OtherValue == [type |-> "other", obj |-> NoObject]

DeleteNotifications ==
    { LiveObject(o) : o \in Objects } \cup { Tombstone(o) : o \in Objects \cup {NoObject} }
        \cup {OtherValue}

\* DeleteFunc: the type switch, then onEvent up to the List of EnsureForMatch
DeleteFunc(p) ==
    /\ p \in Streams
    /\ procs[p].pc = "idle"
    /\ budget.dispatch > 0
    /\ \E n \in DeleteNotifications :
        IF n.type = "other"
        THEN procs' = [procs EXCEPT ![p].call = "DeleteFunc", ![p].input = NoInput]
        ELSE EnsureForMatchList(p, [procs[p] EXCEPT !.call = "onEvent",
                                        !.input = MatchInput(EventDelete, "X", n.obj)])
    /\ budget' = [budget EXCEPT !.dispatch = @ - 1]
    /\ clock' = clock + 1
    /\ UNCHANGED <<ruleSpec, store, jobs, tasks, sent, completed, nonEngineVars>>

InitDelete ==
    InitEngine(RuleSets, RuleIds, 1, MaxDeleteDispatch, 0) /\ WatchAtRest /\ http = IdleHTTP

NextDelete ==
    \E p \in DOMAIN procs :
        \/ DeleteFunc(p)
        \/ EnsureForMatchArm(p)
        \/ ExecuteList(p)
        \/ ExecuteGet(p)
        \/ ExecuteUpdate(p)
        \/ NilDereference(p)

SpecDelete == InitDelete /\ [][NextDelete]_vars

-----------------------------------------------------------------------------
(* SpecWatch: two reconcilers calling Engine.EnsureWatching *)

\* no rule exists and no notification is dispatched
EngineAtRest == InitEngine({CHOOSE rs \in RuleSets : TRUE}, {}, 1, 0, 0)

InitWatch ==
    /\ EngineAtRest
    /\ http = IdleHTTP
    /\ disco \in {{"Pod"}, Kinds}
    /\ informers = {}
    /\ handlers = [g \in GVRs |-> 0]
    /\ started = FALSE
    /\ cronStarted = FALSE
    /\ startPending = 0
    /\ running = {}
    /\ recon = [c \in Reconcilers |-> IdleRecon]
    /\ succeeded = [g \in GVRs |-> 0]
    /\ raw = [g \in GVRs |-> 0]
    /\ onEvents = [g \in GVRs |-> 0]
    /\ wbudget = [calls |-> MaxWatchCalls, notifs |-> MaxNotify]
    /\ ctx = LiveCtx

NextWatch ==
    \/ \E c \in Reconcilers :
        \/ EnsureWatchingResolve(c)
        \/ EnsureWatchingRegister(c)
    \/ FactoryStart
    \/ \E g \in GVRs : Notify(g)
    \/ \E k \in Kinds : InstallKind(k)

SpecWatch == InitWatch /\ [][NextWatch]_vars

-----------------------------------------------------------------------------
(* SpecHTTP: one call of HTTPExecutor.Execute against an arbitrary server *)

InitHTTP == EngineAtRest /\ WatchAtRest /\ http = IdleHTTP

NextHTTP ==
    \/ HTTPExecuteBegin
    \/ HTTPExecuteAttempt

SpecHTTP == InitHTTP /\ [][NextHTTP]_vars

-----------------------------------------------------------------------------
(* SpecBackoff: the retry loop late in a long run of retried attempts *)

BackoffActions ==
    { HTTPAction("", RetryBackoff(m, b, mb), NoTLS, "http://svc") :
        m \in 2..MaxBackoffAttempts, b \in {"", "1s", "1ns"}, mb \in {"", "1s"} }

\* the loop about to make attempt k, after k - 1 responses 503 that were retried
MidLoop(action, k, sleep) ==
    [action |-> action, pc |-> "loop", attempt |-> k, requests |-> k - 1, ret |-> Nil,
     seen |-> [i \in 1..(k - 1) |-> StatusResp(503, "busy")], sleep |-> sleep]

InitBackoff ==
    /\ EngineAtRest
    /\ WatchAtRest
    /\ \E action \in BackoffActions :
        LET k == action.retry.maxAttempts - 1
        IN  \E sleep \in (IF k = 1 THEN {Zero}
                          ELSE backoffSleep(EffBackoffBase(action), EffMaxBackoff(action),
                                            k - 1)) :
                http = MidLoop(action, k, sleep)

NextBackoff == HTTPExecuteAttempt

SpecBackoff == InitBackoff /\ [][NextBackoff]_vars

-----------------------------------------------------------------------------
(* SpecCondition: a sequence of status updates of one rule *)

ConditionOutcomes == {Nil, StatusErrorMsg(404, "gone"), StatusErrorMsg(503, "busy")}

\* the closure of RetryOnConflict applied and written: record, lastError, setCondition
PersistOutcome(r) ==
    /\ store[r].exists
    /\ budget.dispatch > 0
    /\ \E execErr \in ConditionOutcomes :
        store' = [store EXCEPT ![r] =
            [ApplyOutcome(@, ExecutionRecord("U1", EventCreate, clock), execErr, clock)
                EXCEPT !.version = @ + 1]]
    /\ budget' = [budget EXCEPT !.dispatch = @ - 1]
    /\ UNCHANGED <<ruleSpec, clock, jobs, tasks, procs, sent, completed, nonEngineVars>>

\* metav1.Now() moves on
TimePasses ==
    /\ clock < MaxConditionClock
    /\ clock' = clock + 1
    /\ UNCHANGED <<ruleSpec, store, jobs, tasks, procs, sent, completed, budget,
                   nonEngineVars>>

InitCondition ==
    /\ InitEngine({CHOOSE rs \in RuleSets : TRUE}, {"r1"}, 1, MaxConditionUpdates, 0)
    /\ WatchAtRest
    /\ http = IdleHTTP

NextCondition ==
    \/ \E r \in RuleIds : PersistOutcome(r)
    \/ TimePasses

SpecCondition == InitCondition /\ [][NextCondition]_vars

-----------------------------------------------------------------------------
(* Properties of the dispatcher (Spec) *)

\* the records of rule r for (uid, event)
RecordsFor(r, uid, event) ==
    { i \in DOMAIN store[r].status.executions :
        /\ store[r].status.executions[i].resourceUID = uid
        /\ store[r].status.executions[i].event = event }

\* the calls of HTTPExecutor.Execute made for rule r and (uid, event)
CallsFor(r, uid, event) ==
    { k \in DOMAIN sent : k.rule = r /\ k.uid = uid /\ k.event = event }

\* C1: once an Execute that matched rule r for (objectUID, eventType) has persisted its
\* outcome and returned, an Execute entered later with the same objectUID and eventType
\* appends no record to r's ledger and calls the HTTP executor for none of r's actions:
\* the ledger keeps exactly one record for the key and every action was called once.
C1_ReplayIsDeduplicated ==
    /\ \A p \in DOMAIN procs :
        \A r \in procs[p].after :
            r \notin procs[p].sentFor /\ r \notin Range(procs[p].wrote)
    /\ \A key \in completed :
        /\ store[key[1]].exists => Cardinality(RecordsFor(key[1], key[2], key[3])) = 1
        /\ \A k \in CallsFor(key[1], key[2], key[3]) : sent[k] = 1

\* a replay has been dispatched and has returned: the rule it matched before is still
\* there, with its one record
C1_Witness ==
    \E p \in DOMAIN procs :
        /\ procs[p].pc = "idle"
        /\ procs[p].call = "onEvent"
        /\ \E r \in procs[p].after :
            /\ store[r].exists
            /\ ArmsRule(ruleSpec[r], procs[p].input)
            /\ CallsFor(r, procs[p].input.obj.uid, procs[p].input.event) # {}

\* the Ready condition of rule r says what execErr was
ReadyReflects(r, err) ==
    LET conds == store[r].status.conditions
        i     == FindCondition(conds, "Ready")
    IN  /\ i # 0
        /\ Cardinality({ j \in DOMAIN conds : conds[j].type = "Ready" }) = 1
        /\ IF err = Nil
           THEN /\ conds[i].status = "True"
                /\ conds[i].reason = "ActionSucceeded"
                /\ store[r].status.lastError = ""
           ELSE /\ conds[i].status = "False"
                /\ conds[i].reason = "ActionFailed"
                /\ conds[i].message = err
                /\ store[r].status.lastError = err

\* every status update this Execute attempted was persisted
NoUpdateFailed(p) == \A o \in procs[p].outcome : o[1] \in Range(procs[p].wrote)

\* C2: when Execute has returned (no status update having failed), every rule that
\* matched the event and was not deduplicated has exactly one new record
\* {objectUID, event, now}, written by this Execute, and its Ready condition says
\* whether its immediate actions succeeded.
C2_EveryMatchingRulePersisted ==
    \A p \in DOMAIN procs :
        (procs[p].pc = "idle" /\ procs[p].call = "onEvent" /\ NoUpdateFailed(p)) =>
            \A r \in procs[p].want :
                store[r].exists =>
                    /\ Cardinality({ i \in DOMAIN procs[p].wrote : procs[p].wrote[i] = r }) = 1
                    /\ Cardinality(RecordsFor(r, procs[p].input.obj.uid, procs[p].input.event)) = 1
                    /\ \E o \in procs[p].outcome : o[1] = r /\ ReadyReflects(r, o[2])

\* The same for the rules this Execute got to before it returned (holds):
\* the loss is the early return after a failed rule (C25), not the status update
C2_EveryRunRulePersisted ==
    \A p \in DOMAIN procs :
        (procs[p].pc = "idle" /\ procs[p].call = "onEvent") =>
            \A o \in procs[p].outcome :
                store[o[1]].exists =>
                    /\ Cardinality({ i \in DOMAIN procs[p].wrote : procs[p].wrote[i] = o[1] }) = 1
                    /\ ReadyReflects(o[1], o[2])

-----------------------------------------------------------------------------
(* Properties of the interval scheduler (SpecCron) *)

\* the ticker of task h fires in this step
TickStep(h) ==
    /\ budget'.ticks < budget.ticks
    /\ h \in 1..Len(tasks)
    /\ tasks'[h] # tasks[h] \/ procs'[TaskProc(h)] # procs[TaskProc(h)]

\* C3: a tick of a task whose owning rule is no longer in the rule store ends the task
\* without invoking the executor, whatever the event type the task was armed on; and a
\* task is started only by EnsureForMatch acting on a dispatched event.
C3_RemovedRuleStopsTask ==
    [][ /\ \A h \in 1..Len(tasks) :
            (TickStep(h) /\ ~store[tasks[h].ra].exists) =>
                (tasks'[h].state = "exited" /\ procs'[TaskProc(h)].pc = "idle")
        /\ Len(tasks') > Len(tasks) =>
                \E p \in Streams : procs[p].pc = "arm" /\ procs'[p] # procs[p]
      ]_vars

\* the calls of the HTTP executor made by the ticks of task h for its own action
TickCalls(h) ==
    Count(sent, [rule |-> tasks[h].ra, idx |-> tasks[h].idx, uid |-> tasks[h].input.obj.uid,
                 event |-> tasks[h].input.event, by |-> "tick"])

\* C4: while the owning rule exists, every tick of an armed task calls the HTTP executor
\* once for the task's own interval action: once the tick's invocation has returned, the
\* action has been executed as many times as the task has ticked.
C4_EveryTickExecutesAction ==
    \A h \in 1..Len(tasks) :
        (store[tasks[h].ra].exists /\ procs[TaskProc(h)].pc = "idle") =>
            TickCalls(h) = tasks[h].fired

-----------------------------------------------------------------------------
(* Properties of the task registry (SpecArm) *)

\* C5: for every key, under any interleaving of EnsureForMatch calls, at most one task is
\* ever started while the key is registered, the registry maps the key to that task's
\* handle, the stored handle is never replaced, and a call that finds the key registered
\* starts no task and leaves the registry as it is.
C5_ArmingIsIdempotent ==
    /\ [](/\ \A h1, h2 \in 1..Len(tasks) : tasks[h1].key = tasks[h2].key => h1 = h2
          /\ \A k \in DOMAIN jobs : jobs[k] \in 1..Len(tasks) /\ tasks[jobs[k]].key = k)
    /\ [][ /\ \A k \in DOMAIN jobs : k \in DOMAIN jobs' /\ jobs'[k] = jobs[k]
           /\ \A p \in Streams :
                procs'[p].skipped > procs[p].skipped => UNCHANGED <<jobs, tasks>>
         ]_vars

\* a second EnsureForMatch call has met a key that an earlier call registered
C5_Witness ==
    \E p \in Streams :
        /\ procs[p].skipped > 0
        /\ procs[p].pc = "idle"
        /\ \E k \in DOMAIN jobs :
            k.ResourceUID = procs[p].input.obj.uid /\ k.Event = procs[p].input.event

-----------------------------------------------------------------------------
(* Properties of the watch registry (SpecWatch) *)

Registry == <<informers, handlers, started, cronStarted, startPending, running>>

\* C6: after any number of successful EnsureWatching calls for a type, sequential or
\* concurrent, the type has exactly one registration with exactly one event handler, a
\* call that finds the type registered changes nothing, and every raw notification of
\* the type reaches onEvent exactly once.
C6_WatchingIsIdempotent ==
    /\ [](\A g \in GVRs :
            /\ handlers[g] = (IF g \in informers THEN 1 ELSE 0)
            /\ succeeded[g] > 0 => g \in informers
            /\ onEvents[g] = raw[g])
    /\ [][\A c \in Reconcilers :
            (recon[c].pc = "lock" /\ recon'[c].pc = "idle" /\ recon[c].gvr \in informers)
                => UNCHANGED Registry]_vars

\* two calls for one type have succeeded and a notification of that type was delivered
C6_Witness == \E g \in GVRs : succeeded[g] >= 2 /\ raw[g] >= 1

\* C7: once no start of the shared loop is outstanding, every type for which
\* EnsureWatching has returned success has a started watch stream.
C7_EveryRegisteredTypeIsWatched ==
    startPending = 0 => \A g \in GVRs : succeeded[g] > 0 => g \in running

\* C8: an EnsureWatching call for a kind discovery does not serve returns an error and
\* leaves the registry, the watches, the shared loop and the scheduler as they were; a
\* call for a kind discovery serves goes on to register it and returns nil.
C8_UnresolvableKindChangesNothing ==
    /\ [][wbudget'.calls < wbudget.calls =>
            /\ UNCHANGED Registry
            /\ \A c \in Reconcilers : recon'[c] # recon[c] =>
                IF recon'[c].gvk.kind \in disco
                THEN recon'[c].pc = "lock"
                ELSE /\ recon'[c].pc = "idle"
                     /\ recon'[c].ret = NotFoundInDiscovery(recon'[c].gvk)]_vars
    /\ [](/\ \A g \in GVRs : g \in informers <=> succeeded[g] > 0
          /\ started <=> informers # {}
          /\ cronStarted = started
          /\ running \subseteq informers
          /\ startPending > 0 => started
          /\ \A c \in Reconcilers :
                (recon[c].pc = "idle" /\ recon[c].ret = Nil /\ recon[c].gvk.kind \in Kinds)
                    => recon[c].gvr \in informers)

\* a reconciler was refused the kind Widget, and its later call registered it
C8_Witness ==
    \E c \in Reconcilers :
        /\ "Widget" \in recon[c].failed
        /\ recon[c].pc = "idle" /\ recon[c].ret = Nil
        /\ recon[c].gvk = GVK("Widget")
        /\ recon[c].gvr \in informers

-----------------------------------------------------------------------------
(* Properties of the HTTP executor (SpecHTTP) *)

Matches(resp) == resp.kind = "status" /\ StatusMatches(EffPattern(http.action), resp.code)

Codes(seen) == [i \in DOMAIN seen |-> seen[i].code]

\* the transport, the pattern and the request can all be built
Sendable(action) ==
    /\ buildTransport(action.tls) = Nil
    /\ RenderBody(action.body) = Nil
    /\ RegexCompiles(EffPattern(action))
    /\ NewRequest(action.url) = Nil

FirstMatchEnds ==
    \A i \in DOMAIN http.seen :
        Matches(http.seen[i]) => i = Len(http.seen) /\ http.pc = "done" /\ http.ret = Nil

ExampleSucceeds ==
    (http.action = ExampleAction /\ Codes(http.seen) = <<503, 503, 200>>)
        => http.pc = "done" /\ http.ret = Nil /\ http.requests = 3

\* C9 as stated: every finished call has sent at least one and at most maxAttempts
\* requests, and the first response matching the pattern ends the call with success.
C9_AtLeastOneRequest ==
    /\ http.requests <= EffMaxAttempts(http.action)
    /\ http.pc = "done" => http.requests >= 1
    /\ FirstMatchEnds
    /\ ExampleSucceeds

\* C9: a call sends at most maxAttempts requests (an absent or non-positive maxAttempts
\* means 1) and, when its transport, pattern and request can be built, at least one; the
\* first response matching the pattern ends the call with success and no further request;
\* 503, 503, 200 under maxAttempts 3 and retryOnStatus {503} succeed after 3 requests.
C9_RequestsWithinAttempts ==
    /\ [](/\ http.requests <= EffMaxAttempts(http.action)
          /\ http.requests = Len(http.seen)
          /\ (http.pc = "done" /\ Sendable(http.action)) => http.requests >= 1
          /\ FirstMatchEnds
          /\ ExampleSucceeds)
    /\ [][http.pc = "done" => http' = http]_vars

\* the documented example has run: 503, 503, 200 and the call is over
C9_Witness ==
    /\ http.action = ExampleAction
    /\ Codes(http.seen) = <<503, 503, 200>>
    /\ http.pc = "done"

\* C10: on a response whose status does not match the pattern, the loop goes on to the
\* next attempt iff the status is in retryOnStatus and attempt < maxAttempts; otherwise
\* the call ends at once with the status error carrying the code and the body, and sends
\* nothing more.
C10_RetryIffRetryableStatus ==
    /\ [][(http.pc = "loop" /\ Len(http'.seen) = Len(http.seen) + 1) =>
            LET resp == http'.seen[Len(http'.seen)]
            IN  (resp.kind = "status" /\ ~Matches(resp)) =>
                    IF resp.code \in EffRetryOnStatus(http.action)
                       /\ http.attempt < EffMaxAttempts(http.action)
                    THEN /\ http'.pc = "loop"
                         /\ http'.attempt = http.attempt + 1
                         /\ http'.attempt <= EffMaxAttempts(http.action)
                    ELSE /\ http'.pc = "done"
                         /\ http'.ret = StatusErrorMsg(resp.code, resp.body)]_vars
    /\ [][http.pc = "done" => http'.requests = http.requests]_vars

\* a 503 was retried and the following 404, outside the retry set, ended the call although
\* an attempt was left
C10_Witness ==
    /\ http.action = ExampleAction
    /\ Codes(http.seen) = <<503, 404>>
    /\ http.pc = "done"
    /\ http.ret = StatusErrorMsg(404, "gone")

\* the step is one pass of the retry loop in which httpClient.Do returned
Attempted == http.pc = "loop" /\ Len(http'.seen) = Len(http.seen) + 1

\* C11: on a network-level failure the loop goes on to the next attempt iff
\* retryOnNetworkError is true, attempt < maxAttempts and the error is of the transient
\* class; otherwise the call ends at once with that error and sends nothing more, so with
\* retryOnNetworkError false no network error is ever retried.
C11_RetryIffTransientNetworkError ==
    /\ [][Attempted =>
            LET resp == http'.seen[Len(http'.seen)]
            IN  resp.kind = "neterr" =>
                    IF /\ EffRetryOnNetwork(http.action)
                       /\ http.attempt < EffMaxAttempts(http.action)
                       /\ isRetryableNetErr(resp.err)
                    THEN /\ http'.pc = "loop"
                         /\ http'.attempt = http.attempt + 1
                         /\ http'.attempt <= EffMaxAttempts(http.action)
                    ELSE /\ http'.pc = "done"
                         /\ http'.ret = resp.err.msg]_vars
    /\ [][http.pc = "done" => http'.seen = http.seen]_vars
    /\ [](~EffRetryOnNetwork(http.action) =>
            \A i \in DOMAIN http.seen :
                http.seen[i].kind = "neterr" => i = Len(http.seen) /\ http.pc = "done")

\* a connection reset was retried and the following refused connection, not transient,
\* ended the call although an attempt was left
C11_Witness ==
    /\ http.action = ExampleAction
    /\ http.seen = <<NetErrResp(ConnReset), NetErrResp(ConnRefused)>>
    /\ http.pc = "done"
    /\ http.ret = ConnRefused.msg

-----------------------------------------------------------------------------
(* Properties of the backoff (SpecBackoff) *)

\* min(base * 2^(k-1), max) in the integers
IdealDelay(base, max, k) ==
    LET p == UShl(base, k - 1)
    IN  IF ULess(max, p) THEN max ELSE p

\* sleep = d + j with 0 <= j < d/4 (j = 0 when d/4 is 0), and sleep is not negative
Jittered(sleep, d) ==
    /\ ~IsNeg(sleep)
    /\ ~Less(sleep, d)
    /\ \/ Less(sleep, Add(d, Quarter(d)))
       \/ Quarter(d) = Zero /\ sleep = d

\* C12: the sleep taken after every retried attempt k is d + j with
\* d = min(backoffBase * 2^(k-1), maxBackoff) and 0 <= j < d/4, hence never negative and
\* below 1.25 * maxBackoff, also when backoffBase * 2^(k-1) is beyond the int64 range.
C12_SleepIsJitteredBackoff ==
    [][(Attempted /\ http'.pc = "loop") =>
            Jittered(http'.sleep,
                     IdealDelay(EffBackoffBase(http.action), EffMaxBackoff(http.action),
                                http.attempt))]_vars

\* C13: the delay before attempt n >= 2 lies in [d, 1.25 * d) with
\* d = min(base * 2^(n-1), max), and attempt 1 is preceded by no delay.
C13_DelayBeforeAttempt ==
    [][/\ http'.attempt <= 1 => http'.sleep = Zero
       /\ (Attempted /\ http'.pc = "loop") =>
            Jittered(http'.sleep,
                     IdealDelay(EffBackoffBase(http.action), EffMaxBackoff(http.action),
                                http'.attempt))]_vars

-----------------------------------------------------------------------------
(* Properties of the rule condition (SpecCondition) *)

ReadyOf(conds) == conds[FindCondition(conds, "Ready")]

\* C14: an update sets the Ready condition's lastTransitionTime to the time of the update
\* iff the new status differs from the stored one (or none was stored); when the status
\* is the same the stored time is kept whatever reason and message become; and a rule
\* never holds more than one condition of type Ready.
C14_TransitionTimeFollowsStatus ==
    /\ [][\A r \in RuleIds : store'[r] # store[r] =>
            LET old == store[r].status.conditions
                new == store'[r].status.conditions
            IN  /\ FindCondition(new, "Ready") # 0
                /\ IF FindCondition(old, "Ready") = 0
                   THEN ReadyOf(new).lastTransitionTime = clock
                   ELSE /\ Len(new) = Len(old)
                        /\ ReadyOf(new).status # ReadyOf(old).status
                            => ReadyOf(new).lastTransitionTime = clock
                        /\ ReadyOf(new).status = ReadyOf(old).status
                            => ReadyOf(new).lastTransitionTime = ReadyOf(old).lastTransitionTime
          ]_vars
    /\ [](\A r \in RuleIds :
            Cardinality({ i \in DOMAIN store[r].status.conditions :
                            store[r].status.conditions[i].type = "Ready" }) <= 1)

\* two updates at different times left the status False: the later one kept the time of
\* the earlier one
C14_Witness ==
    LET st == store["r1"].status
    IN  /\ Len(st.executions) = 2
        /\ st.executions[1].executedAt < st.executions[2].executedAt
        /\ Len(st.conditions) = 1
        /\ st.conditions[1].status = "False"
        /\ st.conditions[1].lastTransitionTime = st.executions[1].executedAt
        /\ st.conditions[1].message = StatusErrorMsg(503, "busy")

-----------------------------------------------------------------------------
(* Properties of the matcher (SpecMatch) *)

\* the match as specified: selector, event type (names compare without regard to case),
\* and the conjunction of the filter's tests
SpecifiedMatch(spec, input) ==
    /\ spec.selector = input.gvk
    /\ \E e \in spec.events : Fold(e) = Fold(input.event)
    /\ \/ ~spec.filters.set
       \/ /\ spec.filters.nameRegex = ""
             \/ /\ RegexCompiles(spec.filters.nameRegex)
                /\ RegexMatch(spec.filters.nameRegex, input.obj.name)
          /\ spec.filters.namespaceRegex = ""
             \/ /\ RegexCompiles(spec.filters.namespaceRegex)
                /\ RegexMatch(spec.filters.namespaceRegex, input.obj.namespace)
          /\ \A l \in spec.filters.labels : MapGet(input.obj.labels, l[1]) = l[2]

\* rule r comes no later in the list than every rule whose actions failed in this Execute
Reached(p, r) ==
    \A o \in procs[p].outcome :
        o[2] # Nil =>
            \A i, j \in DOMAIN RuleList : (RuleList[i] = r /\ RuleList[j] = o[1]) => i <= j

\* C15: when Execute has returned, it has run the immediate actions of exactly the rules
\* that match the event (and whose ledger did not hold the event already).
C15_RunsIffMatches ==
    \A p \in DOMAIN procs :
        (procs[p].pc = "idle" /\ procs[p].call = "onEvent" /\ procs[p].input # NoInput
         /\ NoUpdateFailed(p)) =>
            \A r \in RuleIds :
                r \in procs[p].sentFor <=>
                    /\ SpecifiedMatch(ruleSpec[r], procs[p].input)
                    /\ r \notin procs[p].after

\* The same for the rules this Execute got to before it returned (holds): the matcher
\* is as specified, the loss is the early return after a failed rule (C25)
C15_ReachedRuleRunsIffMatches ==
    \A p \in DOMAIN procs :
        (procs[p].pc = "idle" /\ procs[p].call = "onEvent" /\ procs[p].input # NoInput
         /\ NoUpdateFailed(p)) =>
            \A r \in RuleIds :
                Reached(p, r) =>
                    (r \in procs[p].sentFor <=>
                        /\ SpecifiedMatch(ruleSpec[r], procs[p].input)
                        /\ r \notin procs[p].after)

-----------------------------------------------------------------------------
(* Properties of the status update (SpecConflict) *)

\* C16: a status update that meets a version conflict is tried again, from a fresh read
\* of the rule, as long as fewer than the fixed number of attempts were made; when the
\* last attempt conflicts Execute returns the conflict error; a rule that is gone
\* (a non-conflict error) ends Execute at once with that error; and nothing is written
\* except over the version that was read.
C16_RetryOnlyOnConflict ==
    /\ [][\A p \in DOMAIN procs :
            LET pr == procs[p]
                r  == Head(pr.todo)
            IN  /\ (pr.pc \in {"get", "update"} /\ procs'[p] # pr /\ ~store[r].exists) =>
                        /\ procs'[p].pc = "idle"
                        /\ procs'[p].ret = NotFoundMsg(r)
                        /\ store' = store
                /\ (pr.pc = "update" /\ procs'[p] # pr /\ store[r].exists
                    /\ store[r].version # pr.latest.version) =>
                        /\ store' = store
                        /\ IF pr.tries + 1 < RetrySteps
                           THEN /\ procs'[p].pc = "get"
                                /\ procs'[p].tries = pr.tries + 1
                           ELSE /\ procs'[p].pc = "idle"
                                /\ procs'[p].ret = ConflictMsg(r)
                /\ (pr.pc = "get" /\ procs'[p] # pr /\ store[r].exists) =>
                        /\ procs'[p].pc = "update"
                        /\ procs'[p].latest = store[r]
                /\ (pr.pc = "update" /\ procs'[p] # pr /\ store' # store) =>
                        /\ pr.latest.version = store[r].version
                        /\ store'[r].version = store[r].version + 1
          ]_vars
    /\ [](\A p \in DOMAIN procs : procs[p].tries < RetrySteps)

\* every attempt of a status update met a conflict and Execute returned the conflict error
C16_Witness ==
    \E p \in DOMAIN procs, r \in RuleIds :
        /\ procs[p].pc = "idle"
        /\ procs[p].ret = ConflictMsg(r)
        /\ store[r].version = MaxRuleVersion
        /\ r \notin Range(procs[p].wrote)

-----------------------------------------------------------------------------
(* Properties of shutdown (SpecShutdown) *)

\* how often task h has invoked the executor since the shutdown signal
FiredSinceShutdown(h) ==
    tasks[h].fired - (IF h \in DOMAIN ctx.fired THEN ctx.fired[h] ELSE 0)

\* C17: once the context given to EnsureWatching and CronEngine.Start is cancelled,
\* every interval task exits within one tick: no task invokes the executor more than
\* once after the signal.
C17_TasksStopAtShutdown ==
    ctx.done => \A h \in 1..Len(tasks) : FiredSinceShutdown(h) <= 1

-----------------------------------------------------------------------------
(* Properties of the executor's configuration step (SpecHTTP) *)

\* caRef names a secret of the namespace whose configured key is missing or empty or
\* whose PEM does not parse
CaUnusable(tlsSpec) ==
    /\ tlsSpec.set
    /\ tlsSpec.caSecretRef # NoSecretKeyRef
    /\ tlsSpec.caSecretRef.name \in SecretNames
    /\ LET ca == MapGet(SecretData, tlsSpec.caSecretRef.key)
       IN  ca = "" \/ ~AppendCertsFromPEM(ca)

\* the client certificate or key bytes are empty or the pair is invalid
ClientCertUnusable(tlsSpec) ==
    /\ tlsSpec.set
    /\ tlsSpec.clientCertSecretRef # NoClientCertRef
    /\ tlsSpec.clientCertSecretRef.name \in SecretNames
    /\ LET certPEM == MapGet(SecretData, tlsSpec.clientCertSecretRef.certKey)
           keyPEM == MapGet(SecretData, tlsSpec.clientCertSecretRef.keyKey)
       IN  certPEM = "" \/ keyPEM = "" \/ ~X509KeyPair(certPEM, keyPEM)

ConfigurationFails(action) ==
    \/ CaUnusable(action.tls)
    \/ ClientCertUnusable(action.tls)
    \/ RenderBody(action.body) # Nil

\* C18: a call of Execute whose action has an unusable CA bundle, an unusable client
\* certificate or a body template that does not render returns an error without having
\* entered the retry loop: no attempt is made and no request is sent, whatever
\* maxAttempts is.
C18_ConfigurationFailureIsTerminal ==
    (http.pc # "idle" /\ ConfigurationFails(http.action)) =>
        /\ http.pc = "done"
        /\ http.ret # Nil
        /\ http.attempt = 0
        /\ http.requests = 0
        /\ http.seen = <<>>

\* a call with three attempts allowed and a CA bundle that is not PEM has returned its
\* error without a request
C18_Witness ==
    /\ http.pc = "done"
    /\ EffMaxAttempts(http.action) = 3
    /\ http.action.tls.caSecretRef = SecretKeyRef("tls", "junk")
    /\ http.action.url = "http://svc"
    /\ RegexCompiles(EffPattern(http.action))
    /\ http.ret = "failed to parse CA PEM"
    /\ http.requests = 0

-----------------------------------------------------------------------------
(* Properties of header resolution (SpecHeaders) *)

\* a header of the action references a secret that is absent from the namespace
SecretAbsent(action) ==
    \E h \in action.headers : h[2] # NoSecretKeyRef /\ h[2].name \notin SecretNames

\* a header of the action references a secret that is present without the referenced key
KeyAbsent(action) ==
    \E h \in action.headers :
        /\ h[2] # NoSecretKeyRef
        /\ h[2].name \in SecretNames
        /\ ~\E e \in SecretData : e[1] = h[2].key

\* the calls of HTTPExecutor.Execute made for action i of rule r
ActionCalls(r, i) == { k \in DOMAIN sent : k.rule = r /\ k.idx = i }

\* C19: an action with a header whose secret is absent, or whose secret lacks the
\* referenced key, is never handed to the HTTP executor, and once an invocation has
\* reached that action and written the rule's status, the rule is Ready=False.
C19_UnresolvedHeaderAborts ==
    \A r \in RuleIds : \A i \in DOMAIN ruleSpec[r].actions :
        (SecretAbsent(ruleSpec[r].actions[i]) \/ KeyAbsent(ruleSpec[r].actions[i])) =>
            /\ ActionCalls(r, i) = {}
            /\ store[r].status.executions # <<>> =>
                    \/ ReadyOf(store[r].status.conditions).status = "False"
                    \/ \E p \in DOMAIN procs : procs[p].pc # "idle"

\* the same for an absent secret alone: the part of C19 the code implements
C19_AbsentSecretAborts ==
    \A r \in RuleIds : \A i \in DOMAIN ruleSpec[r].actions :
        SecretAbsent(ruleSpec[r].actions[i]) =>
            /\ ActionCalls(r, i) = {}
            /\ store[r].status.executions # <<>> =>
                    \/ ReadyOf(store[r].status.conditions).status = "False"
                    \/ \E p \in DOMAIN procs : procs[p].pc # "idle"

-----------------------------------------------------------------------------
(* Properties of arming with a malformed schedule (SpecSchedule) *)

\* the schedule of the action a key was registered for
ScheduleOf(h) == ruleSpec[tasks[h].ra].actions[tasks[h].idx].schedule

\* C20: arming an interval action whose schedule does not parse as a duration leaves no
\* entry in the registry and no task for that key.
C20_UnparsableScheduleNotRegistered ==
    \A key \in DOMAIN jobs : ParseDurationOK(ScheduleOf(jobs[key]))

\* the same without the registry: no task whose schedule does not parse is left running
C20_UnparsableScheduleNeverTicks ==
    \A h \in 1..Len(tasks) : ~ParseDurationOK(ScheduleOf(h)) => tasks[h].state = "exited"

-----------------------------------------------------------------------------
(* Properties of delete notifications (SpecDelete) *)

\* C21: a delete notification is passed on with the snapshot it holds, and a marker
\* without a recoverable snapshot is discarded: no invocation of onEvent, hence of
\* EnsureForMatch or Execute, is ever made without an object.
C21_TombstoneWithoutSnapshotDiscarded ==
    \A p \in DOMAIN procs :
        procs[p].call = "onEvent" => procs[p].input.obj # NoObject

\* the half the handler implements: a marker holding a snapshot is dispatched as a
\* Delete event, so every invocation made is a Delete on the watched kind
C21_DispatchedAsDelete ==
    \A p \in DOMAIN procs :
        procs[p].call = "onEvent" =>
            procs[p].input.event = EventDelete /\ procs[p].input.gvk = GVK("X")

-----------------------------------------------------------------------------
(* Properties of exhausted retries (SpecHTTP) *)

\* the response is one the policy of the action retries: a retryable network error
\* with network retry on, or an unexpected status listed in retryOnStatus
RetryableResponse(action, resp) ==
    IF resp.kind = "neterr"
    THEN EffRetryOnNetwork(action) /\ isRetryableNetErr(resp.err)
    ELSE /\ ~StatusMatches(EffPattern(action), resp.code)
         /\ resp.code \in EffRetryOnStatus(action)

\* all attempts were used and each ended in a retryable response
Exhausted ==
    /\ http.pc = "done"
    /\ Len(http.seen) = EffMaxAttempts(http.action)
    /\ \A k \in DOMAIN http.seen : RetryableResponse(http.action, http.seen[k])

\* C22: a call that used all its attempts, each ending in a retryable status or a
\* retryable network error, returns the generic exhaustion error.
C22_ExhaustionReturnsGenericError ==
    Exhausted => http.ret = ExhaustedMsg(EffMaxAttempts(http.action))

\* what the loop returns instead: the error of the last attempt
C22_ExhaustionReturnsLastError ==
    Exhausted =>
        LET last == http.seen[Len(http.seen)]
        IN  http.ret = IF last.kind = "neterr" THEN last.err.msg
                       ELSE StatusErrorMsg(last.code, last.body)

-----------------------------------------------------------------------------
(* Properties of ticks and the ledger (SpecCron) *)

\* a step of the Execute invoked by a tick of some interval task
TickExecuteStep == \E h \in 1..Len(tasks) : procs'[TaskProc(h)] # procs[TaskProc(h)]

\* C23: the invocation made by a tick leaves every rule's ledger, lastError and
\* conditions as they are, whether it succeeds or fails.
C23_TickLeavesStatusUnchanged ==
    [][TickExecuteStep => \A r \in RuleIds : store'[r].status = store[r].status]_vars

\* how often action i of rule r was handed to the HTTP executor for (uid, event), by
\* dispatches and ticks together
TimesSent(r, i, uid, event) ==
    LET k(by) == [rule |-> r, idx |-> i, uid |-> uid, event |-> event, by |-> by]
    IN  Count(sent, k("dispatch")) + Count(sent, k("tick"))

\* C24: however dispatches and ticks interleave, a rule's ledger holds at most one
\* record per (objectUID, event) and each immediate action is sent at most once for it.
C24_NoDuplicateUnderInterleaving ==
    \A r \in RuleIds : \A o \in Objects : \A ev \in EventTypes :
        /\ Cardinality(RecordsFor(r, o.uid, ev)) <= 1
        /\ \A i \in DOMAIN ruleSpec[r].actions : TimesSent(r, i, o.uid, ev) <= 1

-----------------------------------------------------------------------------
(* Properties of failure isolation between rules (Spec) *)

\* C25: a failed action ends its own rule's sequence only: when Execute has returned,
\* every listed rule that matched the event and was not deduplicated has had its
\* immediate actions run and its outcome written, wherever a failing rule stands in
\* the list.
C25_FailureStopsOnlyOwnRule ==
    \A p \in DOMAIN procs :
        (procs[p].pc = "idle" /\ procs[p].call = "onEvent" /\ NoUpdateFailed(p)) =>
            \A r \in procs[p].want :
                store[r].exists =>
                    /\ \E o \in procs[p].outcome : o[1] = r
                    /\ r \in Range(procs[p].wrote)

\* what the rule loop does: it is left at the first rule whose actions failed
C25_ReturnsAtFirstFailure ==
    \A p \in DOMAIN procs :
        (procs[p].pc = "idle" /\ procs[p].call = "onEvent") =>
            \A o \in procs[p].outcome :
                o[2] # Nil => procs[p].ret # Nil /\ Cardinality({ q \in procs[p].outcome : q[2] # Nil }) = 1

-----------------------------------------------------------------------------
(* Properties of the registry and task lifetime (SpecCron) *)

\* C26: the registry holds a key only while the task started for it is alive: a task
\* that has left its loop has removed its key.
C26_RegistryHoldsOnlyLiveTasks ==
    \A key \in DOMAIN jobs : tasks[jobs[key]].state = "running"

-----------------------------------------------------------------------------
(* Properties of the classification of modes (Spec) *)

\* the periodic mode the rule schema accepts (Enum=once;cron)
SchemaPeriodicMode == "cron"

\* no action is both armed as a task and handed to the HTTP executor by Execute
NoActionArmedAndRun ==
    \A h \in 1..Len(tasks) :
        \A k \in DOMAIN sent : ~(k.rule = tasks[h].ra /\ k.idx = tasks[h].idx)

\* once EnsureForMatch has returned for an event, every action of the schema's periodic
\* mode with a schedule, of a rule that selects the event, has a registry entry
PeriodicModeIsArmed ==
    \A p \in Streams :
        (procs[p].call = "onEvent" /\ procs[p].pc # "arm") =>
            \A r \in RuleIds : \A i \in DOMAIN ruleSpec[r].actions :
                ( /\ store[r].exists
                  /\ ArmsRule(ruleSpec[r], procs[p].input)
                  /\ ruleSpec[r].actions[i].mode = SchemaPeriodicMode
                  /\ ruleSpec[r].actions[i].schedule # "" ) =>
                    cronKey(ruleSpec[r].name, procs[p].input.obj.uid, i, procs[p].input.event)
                        \in DOMAIN jobs

\* C27: EnsureForMatch and Execute classify modes alike: the mode armed as periodic is
\* the mode skipped as non-immediate, so no action is both armed and run at once, and
\* no action of the schema's periodic mode with a schedule stays unarmed.
C27_ModesClassifiedAlike ==
    NoActionArmedAndRun /\ PeriodicModeIsArmed

-----------------------------------------------------------------------------
(* Properties of arming and filters (SpecFilterArm) *)

\* C28: a task exists, and a key is registered, only for an event that the rule's
\* selector, event set and filter all match.
C28_ArmsOnlyOnFullMatch ==
    \A key \in DOMAIN jobs :
        SpecifiedMatch(ruleSpec[tasks[jobs[key]].ra], tasks[jobs[key]].input)

\* what EnsureForMatch tests: the selector and the event set
C28_ArmsOnSelectorAndEvent ==
    \A key \in DOMAIN jobs :
        ArmsRule(ruleSpec[tasks[jobs[key]].ra], tasks[jobs[key]].input)

-----------------------------------------------------------------------------
(* Properties of task keys (SpecArm) *)

\* a task started for action i of rule r on the event of input
HasOwnTask(r, i, input) ==
    \E h \in 1..Len(tasks) :
        /\ tasks[h].ra = r
        /\ tasks[h].idx = i
        /\ tasks[h].input.obj.uid = input.obj.uid
        /\ tasks[h].input.event = input.event

\* EnsureForMatch has returned in p, and rule r, still in the store, selects its event
ArmedFor(p, r) ==
    /\ procs[p].call = "EnsureForMatch"
    /\ procs[p].pc = "idle"
    /\ store[r].exists
    /\ ArmsRule(ruleSpec[r], procs[p].input)

\* C29: keys identify the owning rule: after EnsureForMatch, every rule that selects the
\* event has its own task for each of its interval actions, also when another rule of
\* the same name in another namespace has one at the same index.
C29_EveryRuleGetsOwnTask ==
    \A p \in Streams : \A r \in RuleIds :
        ArmedFor(p, r) =>
            \A i \in Range(ArmIndices(ruleSpec[r].actions)) : HasOwnTask(r, i, procs[p].input)

\* the same for rules whose name no other rule bears: what the key distinguishes
C29_UniquelyNamedRuleGetsOwnTask ==
    \A p \in Streams : \A r \in RuleIds :
        (ArmedFor(p, r) /\ \A q \in RuleIds \ {r} : ruleSpec[q].name # ruleSpec[r].name) =>
            \A i \in Range(ArmIndices(ruleSpec[r].actions)) : HasOwnTask(r, i, procs[p].input)

-----------------------------------------------------------------------------
(* Properties of concurrent status updates (SpecWriters) *)

\* the record p's Execute wrote for rule r is in r's ledger (procs[p].wrote names the
\* rules written by the Execute of procs[p].input once that Execute has listed)
RecordKept(p, r) ==
    RecordsFor(r, procs[p].input.obj.uid, procs[p].input.event) # {}

\* C30: concurrent writers lose no update: every successful status update is the append
\* and the condition update applied to the rule as stored at that moment, so the ledger
\* keeps the records of all writers that have written and the Ready condition is that
\* of the latest update.
C30_NoLostUpdate ==
    /\ [][\A p \in DOMAIN procs : \A r \in RuleIds :
            (procs[p].pc = "update" /\ procs'[p] # procs[p] /\ store'[r] # store[r]) =>
                /\ r = Head(procs[p].todo)
                /\ store'[r].status =
                        ApplyOutcome(store[r], procs[p].record, procs[p].execErr, clock).status
                /\ \A q \in RuleIds \ {r} : store'[q] = store[q]
          ]_vars
    /\ [](\A p \in DOMAIN procs :
            procs[p].pc # "list" => \A r \in Range(procs[p].wrote) : RecordKept(p, r))

\* a writer met a conflict with the other writer's update, read the rule again and is
\* about to write over the version that holds the other writer's record
C30_Witness ==
    \E p, q \in DOMAIN procs : \E r \in RuleIds :
        /\ p # q
        /\ procs[p].pc = "update"
        /\ procs[p].tries > 0
        /\ Head(procs[p].todo) = r
        /\ procs[p].latest = store[r]
        /\ r \in Range(procs[q].wrote)
        /\ RecordKept(q, r)
        /\ procs[p].input.obj.uid # procs[q].input.obj.uid

-----------------------------------------------------------------------------
(* Properties of the action loop (SpecOrder) *)

\* the immediate http actions of a rule, in declared order
ImmediateIndices(actions) ==
    SelectSeq(Indices(actions), LAMBDA i : IsImmediate(actions[i]))

IsPrefix(a, b) == Len(a) <= Len(b) /\ \A k \in 1..Len(a) : a[k] = b[k]

\* in this step the Execute of p runs the action loop of a rule
RanRule(p) ==
    /\ procs[p].pc \in {"list", "update"}
    /\ procs'[p].pc = "get"
    /\ procs'[p].tries = 0

\* C31: the action loop of a matched rule calls the immediate http actions in declared
\* order, each once, and stops at the first that fails, in header resolution or in the
\* HTTP call; EnsureForMatch has finished for the event before the first action is
\* called, and when it returned an error the actions are run all the same.
C31_ActionsInOrderUntilFirstFailure ==
    /\ [][\A p \in DOMAIN procs :
            RanRule(p) =>
                LET r     == Head(procs'[p].todo)
                    acts  == ruleSpec[r].actions
                    imm   == ImmediateIndices(acts)
                    calls == procs'[p].calls
                    errs  == procs'[p].callErrs
                    err   == procs'[p].execErr
                    n     == Len(calls)
                IN  /\ IsPrefix(calls, imm)
                    /\ Len(errs) = n
                    /\ \A k \in 1..(n - 1) : errs[k] = Nil
                    /\ err = Nil => calls = imm /\ (n > 0 => errs[n] = Nil)
                    /\ err # Nil =>
                            \/ n > 0 /\ errs[n] = err
                            \/ /\ n < Len(imm)
                               /\ n > 0 => errs[n] = Nil
                               /\ resolveHeaders(acts[imm[n + 1]].headers).err = err
                    /\ \A k \in DOMAIN sent' :
                            Count(sent', k) = Count(sent, k) +
                                (IF \E i \in Range(calls) : k = CallKey(r, i, procs'[p])
                                 THEN 1 ELSE 0)
                    /\ procs[p].pending = <<>>
          ]_vars
    /\ [][sent' # sent => \E p \in DOMAIN procs : RanRule(p)]_vars
    /\ [](\A p \in Streams :
            /\ (procs[p].call = "onEvent" /\ procs[p].pc \in {"list", "get", "update"})
                    => procs[p].pending = <<>>
            /\ (procs[p].call = "onEvent" /\ procs[p].pc = "idle" /\ procs[p].armErr # Nil
                 /\ procs[p].want # {})
                    => \E o \in procs[p].outcome : o[1] \in procs[p].want)

\* EnsureForMatch returned an error, and the loop of a rule with three immediate actions
\* has called the first two, the second of which failed
C31_Witness ==
    \E p \in Streams :
        /\ procs[p].pc = "get"
        /\ procs[p].armErr # Nil
        /\ procs[p].calls = <<1, 4>>
        /\ procs[p].callErrs[1] = Nil
        /\ procs[p].execErr # Nil
        /\ ImmediateIndices(ruleSpec[Head(procs[p].todo)].actions) = <<1, 4, 5>>

====
